---- MODULE Spec2Model ----
(***************************************************************************)
(* A model of raft::server_impl (src/raft/server.cc): the waiter registry, *)
(* the I/O fiber, the applier fiber, read barriers, set_configuration,     *)
(* snapshot bookkeeping and abort().  The protocol FSM (fsm.hh), the       *)
(* persistence, the RPC layer and the user state machine are collaborators *)
(* whose code is not in server.cc; the FSM is modelled from its contract   *)
(* as the record `fsm` and the environment actions Fsm...                  *)
(*                                                                         *)
(* Scheduling: one cooperative thread.  A fiber runs without interruption  *)
(* from one co_await to the next, and every co_await is a point where      *)
(* other fibers may run.  A program counter names the co_await a fiber is  *)
(* suspended in.  Some counter values name a position inside one           *)
(* uninterrupted run of synchronous code; while a fiber is at such a       *)
(* position no other fiber takes a step (Quiescent).  The persistence      *)
(* calls of io_fiber touch nothing but io_fiber's own state, so a run may  *)
(* let them return before any other fiber is scheduled                     *)
(* (lim.persist_yields = FALSE); the runs about abort() make them          *)
(* suspension points like any other.                                       *)
(***************************************************************************)
EXTENDS Integers, Sequences, FiniteSets, TLC

\* ------------------------------------------------------------------ bounds
MaxTerm == 3        \* terms the FSM goes through
MaxIdx == 3         \* length of the log
MaxWaiters == 2     \* add_entry waiters pending at one time
\* server::configuration values the model runs with
snapshot_threshold == 2
max_log_size == 3

\* ------------------------------------------------------------- identifiers
Servers == {"A", "B", "C"}
Self == "A"
NoServer == "none"
\* the callers of read_barrier()
Callers == {"r1", "r2"}

Max(a, b) == IF a >= b THEN a ELSE b
Min(a, b) == IF a <= b THEN a ELSE b
Last(s) == s[Len(s)]
SetMax(S) == CHOOSE x \in S : \A y \in S : y <= x

\* ---------------------------------------------------------------- state
VARIABLES
    fsm,              \* _fsm (contract model)
    applied_idx,      \* _applied_idx
    awaited_commits,  \* _awaited_commits : index -> term
    awaited_applies,  \* _awaited_applies : index -> term
    apply_entries,    \* _apply_entries, the queue
    queue_aborted,    \* _apply_entries.abort() was called
    io_pc, io_batch, last_stable,   \* io_fiber: position, batch, last_stable
    persisted,        \* the indexes of the entries persistence holds in its log
    ap_pc, ap_item,   \* applier_fiber: position, item taken from the queue
    reads,            \* _reads
    awaited_indexes,  \* _awaited_indexes : set of [idx, c], c the waiting caller
    leader_promise,   \* _leader_promise: "none", "pending", "failed"
    stepdown_promise, \* _stepdown_promise is engaged
    rb,               \* the read_barrier() coroutines, one per caller
    sc,               \* the set_configuration() coroutine
    current_rpc_config,          \* _current_rpc_config
    rpc_servers,                 \* the servers _rpc knows: add_server minus remove_server
    snapshot_transfers,          \* _snapshot_transfers : destination -> transfer id
    aborted_snapshot_transfers,  \* _aborted_snapshot_transfers : set of transfer ids
    next_snapshot_transfer_id,   \* _next_snapshot_transfer_id
    snapshot_application_done,   \* _snapshot_application_done : set of sources
    append_request_status,       \* _append_request_status : destination -> count
    abort_pc,         \* abort(): "none", "join", "drain", "done"
    started,          \* start() has run
    lim,              \* the limits and the schedule of the run (never changes)
    delivered,        \* history: the promise outcomes set by the last step
    acked_idx,        \* history: highest index a commit waiter was fulfilled for
    failed_assert     \* "none", or the assert() that stopped the program

waiterVars == <<awaited_commits, awaited_applies>>
queueVars == <<apply_entries, queue_aborted>>
ioVars == <<io_pc, io_batch, last_stable, persisted>>
apVars == <<ap_pc, ap_item>>
readVars == <<reads, awaited_indexes, leader_promise, rb>>
netVars == <<current_rpc_config, rpc_servers, snapshot_transfers,
                   aborted_snapshot_transfers,
             next_snapshot_transfer_id, snapshot_application_done,
             append_request_status>>
ctlVars == <<abort_pc, started, lim>>

vars == <<fsm, applied_idx, waiterVars, queueVars, ioVars, apVars, readVars,
          stepdown_promise, sc, netVars, ctlVars, delivered, acked_idx,
          failed_assert>>

\* ------------------------------------------------------- finite-map helpers
EmptyMap == [k \in {} |-> 0]
Restrict(m, ks) == [k \in ks |-> m[k]]
Put(m, k, v) == [x \in DOMAIN m \cup {k} |-> IF x = k THEN v ELSE m[x]]

\* ================================================================ the FSM
\* The protocol FSM as server.cc uses it.  Its log is kept whole (index 1 is
\* log[1]); entries at or below snap_idx are no longer in memory, and an
\* entry the node never held (it arrived inside a snapshot) has kind "snp".
\* A configuration entry carries the sets current and previous; it is joint
\* when previous is not empty.
Entry(t, k) == [term |-> t, kind |-> k, current |-> {}, previous |-> {}]
ConfEntry(t, cur, prev) == [term |-> t, kind |-> "conf", current |-> cur, previous |-> prev]

\* the configuration the cluster is created with
InitConfig == Servers

FsmNew(t, sidx, sterm) ==
    [term |-> t, is_leader |-> FALSE, leader |-> NoServer, my_terms |-> {},
     log |-> [i \in 1..sidx |-> Entry(sterm, "snp")],
     commit_idx |-> sidx, snap_idx |-> sidx, snap_term |-> sterm,
     stable_idx |-> sidx, obs_commit |-> sidx,
     snp_out |-> <<>>, tv_dirty |-> FALSE, msgs |-> <<>>,
     conf_out |-> InitConfig,
     last_read_id |-> 0, max_read_id |-> 0, read_out |-> 0,
     snap_sent |-> {}, n_sent |-> 0,
     abort_leadership_transfer |-> FALSE, leadership_transfer |-> FALSE,
     campaign |-> "none",
     stopped |-> FALSE]

is_leader(f) == f.is_leader
current_leader(f) == f.leader
log_last_idx(f) == Len(f.log)
log_last_snapshot_idx(f) == f.snap_idx
in_memory_log_size(f) == Len(f.log) - f.snap_idx

\* fsm::get_configuration: the last configuration in the log
ConfIdxs(f) == {i \in 1..Len(f.log) : f.log[i].current # {}}
last_conf_idx(f) == IF ConfIdxs(f) = {} THEN 0 ELSE SetMax(ConfIdxs(f))
get_configuration(f) ==
    IF ConfIdxs(f) = {} THEN [current |-> InitConfig, previous |-> {}]
    ELSE [current |-> f.log[last_conf_idx(f)].current,
          previous |-> f.log[last_conf_idx(f)].previous]
is_joint(c) == c.previous # {}
\* the address set a batch carries: both halves of the configuration
ConfAddresses(f) == get_configuration(f).current \cup get_configuration(f).previous

\* entries lo..hi of the log, as the batches carry them
LogEntries(f, lo, hi) ==
    [i \in 1..Max(hi - lo + 1, 0) |->
        [idx |-> lo + i - 1, term |-> f.log[lo + i - 1].term,
         kind |-> f.log[lo + i - 1].kind]]

\* fsm::add_entry: the leader appends an entry of its term at the next index;
\* a configuration becomes the joint configuration of the old and the new set
fsm_add_entry(f, e) ==
    [f EXCEPT !.log = Append(@, e)]
\* a configuration change is refused while another one is in progress
conf_change_in_progress(f) ==
    last_conf_idx(f) > f.commit_idx \/ is_joint(get_configuration(f))

\* fsm::apply_snapshot(snp, trailing, local): refused when a snapshot at or
\* after snp.idx is already recorded, and for a remote snapshot when its
\* index is already committed
fsm_snapshot_accepted(f, sidx, local) ==
    /\ sidx > f.snap_idx
    /\ local \/ sidx > f.commit_idx

\* a remote snapshot that does not match the log replaces the log; the
\* snapshot carries the configuration
fsm_apply_snapshot(f, sidx, sterm, local) ==
    LET keep == sidx <= Len(f.log) /\ f.log[sidx].term = sterm
        c == get_configuration(f)
        newlog == IF keep THEN f.log
                  ELSE [i \in 1..sidx |->
                          IF i <= f.commit_idx THEN f.log[i]
                          ELSE IF i = sidx
                               THEN [term |-> sterm, kind |-> "snp",
                                     current |-> c.current, previous |-> c.previous]
                               ELSE Entry(sterm, "snp")]
    IN [f EXCEPT !.log = newlog,
                 !.snap_idx = sidx, !.snap_term = sterm,
                 !.commit_idx = Max(@, sidx),
                 !.stable_idx = IF keep THEN Max(@, sidx) ELSE sidx,
                 !.snp_out = <<[idx |-> sidx, term |-> sterm, is_local |-> local]>>]

\* fsm::start_read_barrier: not_a_leader off the leader; nothing when the
\* leader has not committed an entry of its term; else a new read id and the
\* commit index
read_barrier_ready(f) ==
    f.commit_idx >= 1 /\ f.log[f.commit_idx].term = f.term
fsm_start_read_barrier(f) == [f EXCEPT !.last_read_id = @ + 1]

\* fsm::get_output: everything that changed since the last poll; read_term
\* records the term of the leadership that reports the quorum, stored the
\* persistence calls and the push of the snapshot io_fiber has completed for
\* the batch, in their order,
\* rpc_at_send the servers _rpc knew while the messages were sent,
\* dispatched how the send of each message ended ("sent", or "failed" when
\* send_message threw)
get_output(f) ==
    [term_and_vote |-> f.tv_dirty,
     snp |-> f.snp_out,
     log_entries |-> LogEntries(f, f.stable_idx + 1, Len(f.log)),
     configuration |-> IF ConfAddresses(f) # f.conf_out
                       THEN <<ConfAddresses(f)>> ELSE <<>>,
     messages |-> f.msgs,
     committed |-> LogEntries(f, Max(f.obs_commit, f.snap_idx) + 1, f.commit_idx),
     max_read_id_with_quorum |-> f.read_out,
     read_term |-> IF f.read_out # 0 THEN f.term ELSE 0,
     abort_leadership_transfer |-> f.abort_leadership_transfer,
     stored |-> <<>>, rpc_at_send |-> {}, dispatched |-> <<>>]

EmptyBatch ==
    [term_and_vote |-> FALSE, snp |-> <<>>, log_entries |-> <<>>,
     configuration |-> <<>>, messages |-> <<>>, committed |-> <<>>,
     max_read_id_with_quorum |-> 0, read_term |-> 0,
     abort_leadership_transfer |-> FALSE, stored |-> <<>>, rpc_at_send |-> {},
     dispatched |-> <<>>]

has_output(f) == get_output(f) # EmptyBatch \/ f.obs_commit # f.commit_idx

fsm_observed(f) ==
    [f EXCEPT !.tv_dirty = FALSE, !.snp_out = <<>>, !.msgs = <<>>,
              !.stable_idx = Len(f.log), !.obs_commit = f.commit_idx,
              !.conf_out = ConfAddresses(f), !.read_out = 0,
              !.abort_leadership_transfer = FALSE,
              !.campaign = IF @ = "asked" THEN "polled" ELSE @]

\* ===================================================== promises and waiters
\* The outcome of a promise, as `delivered` records it.  A waiter map is a
\* function index -> term (op_status.term); the promise of a waiter is
\* identified by (kind, idx, term).  For a read, idx is the recorded index,
\* term the read id, to the requester and hint the leader of a not_a_leader.
\* seq numbers the append requests in the order the FSM emits them
Message(dst, type, success) ==
    [dst |-> dst, type |-> type, success |-> success, seq |-> 0]

Out(kind, idx, term, res, to, hint) ==
    [kind |-> kind, idx |-> idx, term |-> term, res |-> res, to |-> to, hint |-> hint]
Outcome(kind, w, k, res) == Out(kind, k, w[k], res, NoServer, NoServer)

\* notify_waiters, first loop: the waiters at or below the last committed index
Covered(w, entries) == {k \in DOMAIN w : k <= Last(entries).idx}

\* assert(entry_idx >= first_idx)
notify_order_ok(w, entries) == \A k \in Covered(w, entries) : k >= entries[1].idx

\* the term comparison that decides set_value() or dropped_entry
NotifyOutcomeAnyTerm(w, entries, k) == "ok"
NotifyOutcome(w, entries, k) ==
    IF w[k] = entries[k - entries[1].idx + 1].term THEN "ok" ELSE "dropped_entry"

\* notify_waiters, second loop: from the smallest remaining key, while the
\* waiter's term is smaller than the last committed term
Residual(w, entries) ==
    LET rest == DOMAIN w \ Covered(w, entries)
    IN {k \in rest : \A j \in rest : j <= k => w[j] < Last(entries).term}

notify_waiters(kind, w, entries) ==
    [waiters |-> Restrict(w, DOMAIN w \ (Covered(w, entries) \cup Residual(w, entries))),
     results |-> {Outcome(kind, w, k, NotifyOutcome(w, entries, k)) : k \in Covered(w, entries)}
                 \cup {Outcome(kind, w, k, "dropped_entry") : k \in Residual(w, entries)}]

\* drop_waiters(idx) on one map: every waiter at or below idx; every waiter
\* when no index is given (drop_all)
DroppedBelow(w, idx, drop_all) == {k \in DOMAIN w : drop_all \/ k < idx}
Dropped(w, idx, drop_all) == {k \in DOMAIN w : drop_all \/ k <= idx}
drop_waiters(kind, w, idx, drop_all) ==
    [waiters |-> Restrict(w, DOMAIN w \ Dropped(w, idx, drop_all)),
     results |-> {Outcome(kind, w, k, "commit_status_unknown") : k \in Dropped(w, idx, drop_all)}]

\* signal_applied: the index waits at or below _applied_idx are fulfilled
SignalReadyEarly(idx, applied) == ~(idx > applied + 1)
SignalReady(idx, applied) == ~(idx > applied)
Signalled(applied) == {w \in awaited_indexes : SignalReady(w.idx, applied)}

\* the caller of read_barrier() finds the outcome of the promise it waits for
RbIdle ==
    [pc |-> "idle", leader |-> NoServer, applied |-> 0, read_idx |-> 0,
     res |-> "none", val |-> 0, hint |-> NoServer, acked |-> 0, floor |-> 0]
RbWake(r, cs, res) ==
    [c \in Callers |-> IF c \in cs THEN [r[c] EXCEPT !.res = res] ELSE r[c]]

\* the set_configuration() coroutine finds the outcome of the waiter it
\* registered among the outcomes of a step
ScIdle == [pc |-> "idle", arg |-> {}, idx |-> 0, term |-> 0, res |-> "none",
           conf_idx |-> 0]
\* no call of set_configuration() is under way
ScReturned == {"idle", "returned", "done", "failed"}
ScWaiting(s) == s.pc \in {"wait_conf", "wait_dummy"} /\ s.res = "none"
ScMine(s, results) ==
    {r \in results : r.kind = "commit" /\ r.idx = s.idx /\ r.term = s.term}
ScNote(s, results) ==
    IF ScWaiting(s) /\ ScMine(s, results) # {}
    THEN [s EXCEPT !.res = (CHOOSE r \in ScMine(s, results) : TRUE).res]
    ELSE s

\* history: what a step delivered
Acked(results) ==
    LET ok == {r.idx : r \in {x \in results : x.kind = "commit" /\ x.res = "ok"}}
    IN IF ok = {} THEN acked_idx ELSE Max(acked_idx, SetMax(ok))
Deliver(results) ==
    /\ delivered' = results
    /\ acked_idx' = Acked(results)
    /\ sc' = ScNote(sc, results)
\* a step that sets no promise and leaves set_configuration() alone
Quiet == Deliver({})

\* ============================================================== scheduling
IoSync == {"dispatch", "finish"}
IoPersist == {"store_tv", "store_snp", "truncate", "store_log"}
ApSync == {"applied"}
RbSync == {"loop"}
\* no fiber is in the middle of a run of synchronous code
Quiescent ==
    /\ io_pc \notin IoSync
    /\ lim.persist_yields \/ io_pc \notin IoPersist
    /\ ap_pc \notin ApSync
    /\ \A c \in Callers : rb[c].pc \notin RbSync

Running == started /\ failed_assert = "none"
\* the API is used until abort() is called
Serving == Running /\ Quiescent /\ abort_pc = "none"

\* a failed assert() stops the program
Crash(name) ==
    /\ failed_assert' = name
    /\ delivered' = {}
    /\ UNCHANGED <<fsm, applied_idx, waiterVars, queueVars, ioVars, apVars,
                   readVars, stepdown_promise, sc, netVars, ctlVars, acked_idx>>

\* ================================================================ start()
\* The persisted state start() loads: no snapshot, or a snapshot at index 1.
Start(sidx) ==
    /\ ~started /\ failed_assert = "none"
    /\ started' = TRUE
    /\ fsm' = FsmNew(IF sidx = 0 THEN 0 ELSE 1, sidx, IF sidx = 0 THEN 0 ELSE 1)
    /\ applied_idx' = sidx
    /\ last_stable' = sidx
    /\ persisted' = {}
    /\ current_rpc_config' = ConfAddresses(fsm')
    /\ rpc_servers' = ConfAddresses(fsm')
    /\ io_pc' = "poll" /\ ap_pc' = "pop"
    /\ Quiet
    /\ UNCHANGED <<waiterVars, queueVars, io_batch, ap_item, readVars,
                   stepdown_promise, snapshot_transfers, aborted_snapshot_transfers,
                   next_snapshot_transfer_id, snapshot_application_done,
                   append_request_status, abort_pc, lim, failed_assert>>

\* ================================================== add_entry_internal
\* co_await wait_max_log_size(), fsm.add_entry(), then the waiter is
\* registered in the map of the requested kind; assert(inserted).
Pending == Cardinality(DOMAIN awaited_commits) + Cardinality(DOMAIN awaited_applies)
CanAdd ==
    /\ is_leader(fsm) /\ ~fsm.stopped
    /\ in_memory_log_size(fsm) < lim.config.max_log_size
    /\ log_last_idx(fsm) < lim.max_idx
    /\ Pending < lim.max_waiters

\* the maps after the registration; the pair is not changed when the key is
\* taken (the caller asserts)
Inserted(type, idx) ==
    idx \notin DOMAIN (IF type = "committed" THEN awaited_commits ELSE awaited_applies)
Register(type, idx, term) ==
    IF type = "committed"
    THEN /\ awaited_commits' = Put(awaited_commits, idx, term)
         /\ UNCHANGED awaited_applies
    ELSE /\ awaited_applies' = Put(awaited_applies, idx, term)
         /\ UNCHANGED awaited_commits

\* s: the set_configuration() coroutine after the call
add_entry_internal(e, type, s) ==
    IF ~Inserted(type, log_last_idx(fsm) + 1)
    THEN Crash("inserted")
    ELSE /\ fsm' = fsm_add_entry(fsm, e)
         /\ Register(type, log_last_idx(fsm) + 1, fsm.term)
         /\ delivered' = {} /\ acked_idx' = acked_idx /\ sc' = s
         /\ UNCHANGED <<applied_idx, queueVars, ioVars, apVars, readVars,
                        stepdown_promise, netVars, ctlVars, failed_assert>>

add_entry(type) ==
    /\ Serving /\ CanAdd
    /\ add_entry_internal(Entry(fsm.term, "cmd"), type, sc)

\* ============================================================ applier_fiber
BatchItem(entries) == [is_snp |-> FALSE, idx |-> 0, term |-> 0, entries |-> entries]
SnapshotItem(snp) == [is_snp |-> TRUE, idx |-> snp.idx, term |-> snp.term, entries |-> <<>>]
NoItem == BatchItem(<<>>)

Commands(batch) == SelectSeq(batch, LAMBDA e : e.kind = "cmd")

\* notify_waiters(_awaited_commits, batch), the first thing done with a batch
NotifyCommitsLater(batch) == [waiters |-> awaited_commits, results |-> {}]
NotifyCommits(batch) == notify_waiters("commit", awaited_commits, batch)

\* assert(last_idx == _applied_idx + batch.size())
Contiguous(batch) == Last(batch).idx = applied_idx + Len(batch)

\* signal_applied() at the end of an iteration of the applier
SignalApplied(applied) ==
    /\ awaited_indexes' = awaited_indexes \ Signalled(applied)
    /\ rb' = RbWake(rb, {w.c : w \in Signalled(applied)}, "ok")
    /\ UNCHANGED <<reads, leader_promise>>
IndexOutcomes(applied) ==
    {Out("index", w.idx, 0, "ok", w.c, NoServer) : w \in Signalled(applied)}

\* co_await pop_eventually(); a batch: notify the commit waiters, assert
\* contiguity, hand the commands to state_machine.apply; a snapshot: assert
\* it is not older than what is applied, call load_snapshot
ApplierPop ==
    /\ Running /\ Quiescent
    /\ ap_pc = "pop" /\ ~queue_aborted /\ apply_entries # <<>>
    /\ LET v == Head(apply_entries) IN
       IF v.is_snp
       THEN IF v.idx >= applied_idx
            THEN /\ ap_pc' = "load_snapshot" /\ ap_item' = v
                 /\ apply_entries' = Tail(apply_entries)
                 /\ Quiet
                 /\ UNCHANGED <<fsm, applied_idx, waiterVars, queue_aborted, ioVars,
                                readVars, stepdown_promise, netVars, ctlVars,
                                failed_assert>>
            ELSE Crash("snapshot_idx")
       ELSE IF v.entries = <<>>
       THEN /\ apply_entries' = Tail(apply_entries)
            /\ Quiet
            /\ UNCHANGED <<fsm, applied_idx, waiterVars, queue_aborted, ioVars,
                           apVars, readVars, stepdown_promise, netVars, ctlVars,
                           failed_assert>>
       ELSE IF ~notify_order_ok(awaited_commits, v.entries)
       THEN Crash("notify_order")
       ELSE IF ~Contiguous(v.entries)
       THEN Crash("contiguity")
       ELSE /\ awaited_commits' = NotifyCommits(v.entries).waiters
            /\ Deliver(NotifyCommits(v.entries).results)
            /\ apply_entries' = Tail(apply_entries)
            /\ ap_item' = v
            /\ ap_pc' = IF Commands(v.entries) # <<>> THEN "apply" ELSE "applied"
            /\ UNCHANGED <<fsm, applied_idx, awaited_applies, queue_aborted,
                           ioVars, readVars, stepdown_promise, netVars, ctlVars,
                           failed_assert>>

\* the index _applied_idx is set to after a batch
AppliedBatchSize(batch) == Len(batch)
AppliedAfterBatch(batch) == Last(batch).idx

\* the snapshotting policy
SnapshotDueLater(applied, last_snap) ==
    applied >= last_snap /\ applied - last_snap > snapshot_threshold
SnapshotDue(applied, last_snap) ==
    applied >= last_snap /\ applied - last_snap >= snapshot_threshold

\* state_machine.apply returned (or there was no command): _applied_idx,
\* notify the apply waiters, then either take a snapshot or signal_applied
ApplierApplied ==
    /\ Running
    /\ ap_pc \in {"apply", "applied"}
    /\ ap_pc = "apply" => Quiescent
    /\ LET batch == ap_item.entries
           applied == AppliedAfterBatch(batch)
           n == notify_waiters("apply", awaited_applies, batch)
       IN IF ~notify_order_ok(awaited_applies, batch)
          THEN Crash("notify_order")
          ELSE /\ applied_idx' = applied
               /\ awaited_applies' = n.waiters
               /\ IF SnapshotDue(applied, log_last_snapshot_idx(fsm))
                  THEN /\ ap_pc' = "take_snapshot" /\ ap_item' = ap_item
                       /\ Deliver(n.results)
                       /\ UNCHANGED readVars
                  ELSE /\ ap_pc' = "pop" /\ ap_item' = NoItem
                       /\ Deliver(n.results \cup IndexOutcomes(applied))
                       /\ SignalApplied(applied)
               /\ UNCHANGED <<fsm, awaited_commits, queueVars, ioVars,
                              stepdown_promise, netVars, ctlVars, failed_assert>>

\* state_machine.apply threw: catch (...) logs the error and the fiber
\* returns; the batch it held stays in ap_item
ApplyFailedGoesOn == "applied"
ApplyFailedTo == "exited"
ApplierApplyFailed ==
    /\ Running /\ Quiescent
    /\ ap_pc = "apply"
    /\ ap_pc' = ApplyFailedTo
    /\ Quiet
    /\ UNCHANGED <<fsm, applied_idx, waiterVars, queueVars, ioVars, ap_item,
                   readVars, stepdown_promise, netVars, ctlVars, failed_assert>>

\* state_machine.take_snapshot returned: hand the snapshot to the FSM, which
\* ignores it when it already holds a later one, and then drop_snapshot of
\* the new id; signal_applied
ApplierSnapshotTaken ==
    /\ Running /\ Quiescent
    /\ ap_pc = "take_snapshot"
    /\ LET ok == fsm_snapshot_accepted(fsm, applied_idx, TRUE) IN
       /\ fsm' = IF ok
                 THEN fsm_apply_snapshot(fsm, applied_idx, Last(ap_item.entries).term,
                                         TRUE)
                 ELSE fsm
       /\ Deliver(IndexOutcomes(applied_idx)
                  \cup (IF ok THEN {}
                        ELSE {Out("drop_snapshot", applied_idx,
                                  Last(ap_item.entries).term, "rejected",
                                  NoServer, NoServer)}))
    /\ ap_pc' = "pop" /\ ap_item' = NoItem
    /\ SignalApplied(applied_idx)
    /\ UNCHANGED <<applied_idx, waiterVars, queueVars, ioVars,
                   stepdown_promise, netVars, ctlVars, failed_assert>>

\* the index _applied_idx is set to after a snapshot
AppliedBeforeSnapshot(snp) == snp.idx - 1
AppliedAfterSnapshot(snp) == snp.idx

\* state_machine.load_snapshot returned: drop the waiters the snapshot
\* covers, _applied_idx, signal_applied
ApplierSnapshotLoaded ==
    /\ Running /\ Quiescent
    /\ ap_pc = "load_snapshot"
    /\ LET dc == drop_waiters("commit", awaited_commits, ap_item.idx, FALSE)
           da == drop_waiters("apply", awaited_applies, ap_item.idx, FALSE)
           applied == AppliedAfterSnapshot(ap_item)
       IN /\ awaited_commits' = dc.waiters
          /\ awaited_applies' = da.waiters
          /\ applied_idx' = applied
          /\ Deliver(dc.results \cup da.results \cup IndexOutcomes(applied))
          /\ SignalApplied(applied)
    /\ ap_pc' = "pop" /\ ap_item' = NoItem
    /\ UNCHANGED <<fsm, queueVars, ioVars, stepdown_promise, netVars,
                   ctlVars, failed_assert>>

\* pop_eventually() on the aborted queue throws stop_apply_fiber: the fiber
\* returns
ApplierStopped ==
    /\ Running /\ Quiescent
    /\ ap_pc = "pop" /\ queue_aborted
    /\ ap_pc' = "exited"
    /\ Quiet
    /\ UNCHANGED <<fsm, applied_idx, waiterVars, queueVars, ioVars, ap_item,
                   readVars, stepdown_promise, netVars, ctlVars, failed_assert>>

\* ============================================================ send_message
\* The bookkeeping send_message touches, threaded through the messages of a
\* batch: the live transfers, the next transfer id, the inbound-snapshot
\* promises, the append-request chains, a failed assert, the outcomes set.
SendState ==
    [transfers |-> snapshot_transfers, next_id |-> next_snapshot_transfer_id,
     done |-> snapshot_application_done, status |-> append_request_status,
     crash |-> "none", results |-> {}, sync |-> {}, throws |-> {}, log |-> <<>>]

\* send_snapshot: a new transfer id; assert(res.second) on the emplace
send_snapshot(s, dst) ==
    IF dst \in DOMAIN s.transfers
    THEN [s EXCEPT !.crash = "transfer_emplace"]
    ELSE [s EXCEPT !.transfers = Put(@, dst, s.next_id), !.next_id = @ + 1]

\* apply_snapshot() after its co_await: the reply is returned, and the
\* snapshot is dropped from the state machine unless the reply is a success
\* (a failed promise leaves the reply unsuccessful)
SnapshotAnswered(from, res) ==
    {Out("snapshot", 0, 0, res, from, NoServer)}
        \cup (IF res # "success"
              THEN {Out("drop_snapshot", 0, 0, "dropped", from, NoServer)} ELSE {})

\* _snapshot_application_done.erase(id)
ReplyKept(done, id) == done
ReplyDone(done, id) == done \ {id}

\* struct append_request_queue: the count, and the future f as the links
\* chained to it that have not returned, the first being the one whose
\* send_append_entries is under way
AppendQueue == [count |-> 0, chain |-> <<>>]
\* _append_request_status[id]: the record of the destination, made if absent
StatusOf(status, d) == IF d \in DOMAIN status THEN status[d] ELSE AppendQueue

\* the end of a link: count--, and the record is erased at zero
LinkReturned(status, d) ==
    IF status[d].count = 1
    THEN Restrict(status, DOMAIN status \ {d})
    ELSE Put(status, d, [count |-> status[d].count - 1, chain |-> Tail(status[d].chain)])

\* _append_request_status[id].f = ...: the right operand is evaluated first
AssignChain(status, d, f) == Put(status, d, [StatusOf(status, d) EXCEPT !.chain = f])

\* append_request: count++ and a link chained to f; chained to a ready f the
\* link runs at once, and it returns within the call when the rpc's
\* send_append_entries returns a ready future (m.seq in s.sync)
send_append_request(s, m) ==
    LET q == StatusOf(s.status, m.dst)
        counted == Put(s.status, m.dst, [q EXCEPT !.count = @ + 1])
    IN IF q.chain = <<>> /\ m.seq \in s.sync
       THEN AssignChain(LinkReturned(counted, m.dst), m.dst, <<>>)
       ELSE AssignChain(counted, m.dst, Append(q.chain, m.seq))

\* snapshot_reply: assert(_snapshot_application_done.contains(id)), the
\* promise is fulfilled and erased
send_message(s, m) ==
    IF s.crash # "none" THEN s
    ELSE IF m.type = "append_request"
    THEN [s EXCEPT !.status = send_append_request(s, m)]
    ELSE IF m.type = "install_snapshot"
    THEN send_snapshot(s, m.dst)
    ELSE IF m.type = "snapshot_reply"
    THEN IF m.dst \notin s.done
         THEN [s EXCEPT !.crash = "snapshot_reply"]
         ELSE [s EXCEPT !.done = ReplyDone(@, m.dst),
                        !.results = @ \cup SnapshotAnswered(
                                        m.dst, IF m.success THEN "success" ELSE "failure")]
    ELSE s

\* the messages send_message hands to _rpc within the call: an exception of
\* the rpc module leaves send_message
Direct(m) == m.type \notin {"append_request", "install_snapshot", "snapshot_reply"}

\* the loop over batch.messages goes on after catch (...)
LoopEndsOnFailure(s) == "failed" \notin {s.log[i] : i \in DOMAIN s.log}
LoopGoesOn(s) == TRUE

\* try { send_message(m.first, m.second); } catch (...) { }: the message at
\* a position of s.throws makes the rpc module throw
Dispatch(s, m) ==
    IF s.crash # "none" THEN s
    ELSE IF Direct(m) /\ (Len(s.log) + 1) \in s.throws
    THEN [s EXCEPT !.log = Append(@, "failed")]
    ELSE [send_message(s, m) EXCEPT !.log = Append(@, "sent")]

RECURSIVE SendAll(_, _)
SendAll(s, msgs) ==
    IF msgs = <<>> \/ ~LoopGoesOn(s) THEN s
    ELSE SendAll(Dispatch(s, Head(msgs)), Tail(msgs))

\* diff_address_sets
DiffJoiningOnly(prev, current) ==
    [joining |-> current \ prev, leaving |-> {}]
diff_address_sets(prev, current) ==
    [joining |-> current \ prev, leaving |-> prev \ current]

\* a transfer in _aborted_snapshot_transfers: its id, and the destination
\* the continuation of its future has captured
Transfer(id, dst) == [id |-> id, dst |-> dst]

\* abort_snapshot_transfer(id) for every id of a set; abort_snapshot_transfers
\* is the same for all destinations
AbortTransfers(transfers, aborted, ids) ==
    [transfers |-> Restrict(transfers, DOMAIN transfers \ ids),
     aborted |-> aborted \cup {Transfer(transfers[d], d) : d \in DOMAIN transfers \cap ids}]

\* ================================================================ io_fiber
\* The co_awaits of one iteration, in the order of the code, and the two
\* runs of synchronous code ("dispatch": rpc configuration and messages;
\* "finish": read barriers, leadership, leader promise).
IoOrderLogFirst == <<"truncate", "store_log", "store_tv", "store_snp", "push_snp",
                     "dispatch", "push_committed", "finish">>
IoOrder == <<"store_tv", "store_snp", "push_snp", "truncate", "store_log",
             "dispatch", "push_committed", "finish">>

\* a snapshot is put on the apply queue unless it was taken locally
PushSnapshotAlways(snp) == TRUE
PushSnapshot(snp) == ~snp.is_local

\* if (last_stable >= entries[0]->idx) co_await truncate_log(entries[0]->idx)
TruncateNever(b, ls) == FALSE
TruncateNeeded(b, ls) == ls >= b.log_entries[1].idx

\* the log persistence holds after a call returned: truncate_log(idx) drops
\* the entries from idx on, store_snapshot_descriptor those the snapshot
\* covers, store_log_entries adds the entries
PersistedAfter(call, b, log) ==
    CASE call = "truncate" -> {i \in log : i < b.log_entries[1].idx}
      [] call = "store_snp" -> {i \in log : i > b.snp[1].idx}
      [] call = "store_log" ->
             log \cup {b.log_entries[i].idx : i \in DOMAIN b.log_entries}
      [] OTHER -> log

IoNeeded(step, b, ls) ==
    CASE step = "store_tv" -> b.term_and_vote
      [] step = "store_snp" -> b.snp # <<>>
      [] step = "push_snp" -> b.snp # <<>> /\ PushSnapshot(b.snp[1])
      [] step = "truncate" -> b.log_entries # <<>> /\ TruncateNeeded(b, ls)
      [] step = "store_log" -> b.log_entries # <<>>
      [] step = "push_committed" -> b.committed # <<>>
      [] OTHER -> TRUE

IoPos(step) == CHOOSE i \in 1..Len(IoOrder) : IoOrder[i] = step

\* the next position after position i of the iteration
IoNext(i, b, ls) ==
    IoOrder[CHOOSE j \in (i + 1)..Len(IoOrder) :
               /\ IoNeeded(IoOrder[j], b, ls)
               /\ \A k \in (i + 1)..(j - 1) : ~IoNeeded(IoOrder[k], b, ls)]

IoAfter(step) == IoNext(IoPos(step), io_batch, last_stable)

\* co_await _fsm->poll_output()
IoPoll ==
    /\ Running /\ Quiescent
    /\ io_pc = "poll" /\ has_output(fsm)
    /\ io_batch' = get_output(fsm)
    /\ fsm' = fsm_observed(fsm)
    /\ io_pc' = IoNext(0, get_output(fsm), last_stable)
    /\ Quiet
    /\ UNCHANGED <<applied_idx, waiterVars, queueVars, last_stable, persisted, apVars,
                   readVars, stepdown_promise, netVars, ctlVars, failed_assert>>

\* a persistence call returned: store_term_and_vote,
\* store_snapshot_descriptor (then drop_snapshot(old_id)), truncate_log
IoPersisted ==
    /\ Running
    /\ lim.persist_yields => Quiescent
    /\ io_pc \in {"store_tv", "store_snp", "truncate"}
    /\ io_pc' = IoAfter(io_pc)
    /\ io_batch' = [io_batch EXCEPT !.stored = Append(@, io_pc)]
    /\ persisted' = PersistedAfter(io_pc, io_batch, persisted)
    /\ Quiet
    /\ UNCHANGED <<fsm, applied_idx, waiterVars, queueVars, last_stable,
                   apVars, readVars, stepdown_promise, netVars, ctlVars,
                   failed_assert>>

\* store_log_entries returned: last_stable is the last entry's index
IoStoredLog ==
    /\ Running
    /\ lim.persist_yields => Quiescent
    /\ io_pc = "store_log"
    /\ last_stable' = Last(io_batch.log_entries).idx
    /\ io_pc' = IoNext(IoPos("store_log"), io_batch, Last(io_batch.log_entries).idx)
    /\ io_batch' = [io_batch EXCEPT !.stored = Append(@, "store_log")]
    /\ persisted' = PersistedAfter("store_log", io_batch, persisted)
    /\ Quiet
    /\ UNCHANGED <<fsm, applied_idx, waiterVars, queueVars, apVars,
                   readVars, stepdown_promise, netVars, ctlVars, failed_assert>>

\* a persistence call threw: catch (...) logs the error and io_fiber
\* returns
FailedGoesOn(step) == IoAfter(step)
FailedTo(step) == "exited"

\* store_term_and_vote, store_snapshot_descriptor, truncate_log or
\* store_log_entries fails ("failed" in the batch's record of calls)
IoPersistFailed ==
    /\ Running
    /\ lim.persist_yields => Quiescent
    /\ io_pc \in IoPersist
    /\ io_pc' = FailedTo(io_pc)
    /\ io_batch' = [io_batch EXCEPT !.stored = Append(@, "failed")]
    /\ Quiet
    /\ UNCHANGED <<fsm, applied_idx, waiterVars, queueVars, last_stable, persisted,
                   apVars, readVars, stepdown_promise, netVars, ctlVars,
                   failed_assert>>

\* the capacity of _apply_entries
QueueCapacity == 10

\* co_await _apply_entries.push_eventually(snp)
IoPushSnp ==
    /\ Running /\ Quiescent
    /\ io_pc = "push_snp" /\ ~queue_aborted
    /\ Len(apply_entries) < QueueCapacity
    /\ apply_entries' = Append(apply_entries, SnapshotItem(io_batch.snp[1]))
    /\ io_pc' = IoAfter("push_snp")
    /\ io_batch' = [io_batch EXCEPT !.stored = Append(@, "push_snp")]
    /\ Quiet
    /\ UNCHANGED <<fsm, applied_idx, waiterVars, queue_aborted, last_stable,
                   persisted, apVars, readVars, stepdown_promise, netVars,
                   ctlVars, failed_assert>>

\* the servers _rpc knows when the messages are sent: add_server was called
\* for the joining ones, remove_server for none yet
RpcAtSendLate(servers, rpc_diff) == servers \ rpc_diff.leaving
RpcAtSend(servers, rpc_diff) == servers \cup rpc_diff.joining

\* the rpc configuration gets the joining servers, the messages are sent,
\* the transfers to the leaving servers are aborted and they are removed
\* the append requests of a batch whose send_append_entries returns a ready
\* future
SyncSends(msgs) ==
    IF lim.sync_rpc
    THEN SUBSET {msgs[i].seq : i \in {j \in DOMAIN msgs : msgs[j].type = "append_request"}}
    ELSE {{}}

\* the positions of the messages of a batch at which the rpc module throws
Throws(msgs) ==
    IF lim.send_throws
    THEN SUBSET {i \in DOMAIN msgs : Direct(msgs[i])}
    ELSE {{}}

IoDispatch ==
    /\ Running
    /\ io_pc = "dispatch"
    /\ LET conf == io_batch.configuration
           rpc_diff == IF conf # <<>>
                       THEN diff_address_sets(current_rpc_config, conf[1])
                       ELSE [joining |-> {}, leaving |-> {}]
           at_send == RpcAtSend(rpc_servers, rpc_diff)
       IN \E sync \in SyncSends(io_batch.messages), throws \in Throws(io_batch.messages) :
          LET s == SendAll([SendState EXCEPT !.sync = sync, !.throws = throws],
                           io_batch.messages)
              t == AbortTransfers(s.transfers, aborted_snapshot_transfers,
                                  rpc_diff.leaving)
          IN
          IF s.crash # "none"
          THEN Crash(s.crash)
          ELSE /\ current_rpc_config' =
                      (current_rpc_config \cup rpc_diff.joining) \ rpc_diff.leaving
               /\ rpc_servers' = at_send \ rpc_diff.leaving
               /\ io_batch' = [io_batch EXCEPT !.rpc_at_send = at_send,
                                               !.dispatched = s.log]
               /\ snapshot_transfers' = t.transfers
               /\ aborted_snapshot_transfers' = t.aborted
               /\ next_snapshot_transfer_id' = s.next_id
               /\ snapshot_application_done' = s.done
               /\ append_request_status' = s.status
               /\ Deliver(s.results)
               /\ io_pc' = IoAfter("dispatch")
               /\ UNCHANGED <<fsm, applied_idx, waiterVars, queueVars,
                              last_stable, persisted, apVars, readVars,
                              stepdown_promise, ctlVars, failed_assert>>

\* co_await _apply_entries.push_eventually(batch.committed)
IoPushCommitted ==
    /\ Running /\ Quiescent
    /\ io_pc = "push_committed" /\ ~queue_aborted
    /\ Len(apply_entries) < QueueCapacity
    /\ apply_entries' = Append(apply_entries, BatchItem(io_batch.committed))
    /\ io_pc' = "finish"
    /\ Quiet
    /\ UNCHANGED <<fsm, applied_idx, waiterVars, queue_aborted, io_batch,
                   last_stable, persisted, apVars, readVars, stepdown_promise,
                   netVars,
                   ctlVars, failed_assert>>

\* the reads at the front of _reads the quorum covers:
\* while (!_reads.empty() && _reads.front().id <= max_read_id_with_quorum)
ReadCovered(r, max) == r.id <= max
QuorumPrefix(rs, max) ==
    IF max = 0 THEN 0
    ELSE SetMax({n \in 0..Len(rs) : \A i \in 1..n : ReadCovered(rs[i], max)})

ReadOutcomes(rs, lo, hi, res, hint) ==
    {Out("read", rs[i].idx, rs[i].id, res, rs[i].from, hint) : i \in lo..hi}

\* the callers of read_barrier() whose read or leader wait was resolved
RbAfterReads(r, outs) ==
    [c \in Callers |->
        IF \E o \in outs : o.to = c
        THEN LET o == CHOOSE o \in outs : o.to = c
             IN [r[c] EXCEPT !.res = o.res, !.val = o.idx, !.hint = o.hint]
        ELSE r[c]]
LeaderWaiters(r) == {c \in Callers : r[c].pc = "wait_leader" /\ r[c].res = "none"}

\* !_current_rpc_config.contains(server_address{_id})
OutOfConfigAlways == TRUE
OutOfConfig == Self \notin current_rpc_config

\* the end of an iteration: reads with a quorum, loss of leadership, an
\* aborted leadership transfer, the leader promise; back to poll_output
\* what the end of an iteration does to a pending _stepdown_promise: the test
\* of is_leader() comes first, the batch's abort_leadership_transfer second
StepdownTimeoutFirst(lost, abort_transfer) ==
    IF abort_transfer THEN "timeout" ELSE IF lost THEN "ok" ELSE "none"
StepdownResult(lost, abort_transfer) ==
    IF lost THEN "ok" ELSE IF abort_transfer THEN "timeout" ELSE "none"

IoFinish ==
    /\ Running
    /\ io_pc = "finish"
    /\ LET n == QuorumPrefix(reads, io_batch.max_read_id_with_quorum)
           quorum == ReadOutcomes(reads, 1, n, "index", NoServer)
           lost == ~is_leader(fsm)
           nal == IF lost
                  THEN ReadOutcomes(reads, n + 1, Len(reads), "not_a_leader",
                                    current_leader(fsm))
                  ELSE {}
           out_of_config == lost /\ OutOfConfig
           dc == drop_waiters("commit", awaited_commits, 0, out_of_config)
           da == drop_waiters("apply", awaited_applies, 0, out_of_config)
           t == AbortTransfers(snapshot_transfers, aborted_snapshot_transfers,
                               IF lost THEN DOMAIN snapshot_transfers ELSE {})
           sd == StepdownResult(lost, io_batch.abort_leadership_transfer)
           stepped == stepdown_promise /\ sd # "none"
           known == leader_promise # "none" /\ current_leader(fsm) # NoServer
       IN /\ reads' = IF lost THEN <<>> ELSE SubSeq(reads, n + 1, Len(reads))
          /\ awaited_commits' = dc.waiters
          /\ awaited_applies' = da.waiters
          /\ snapshot_transfers' = t.transfers
          /\ aborted_snapshot_transfers' = t.aborted
          /\ stepdown_promise' = (stepdown_promise /\ ~stepped)
          /\ leader_promise' = IF known THEN "none" ELSE leader_promise
          /\ rb' = RbWake(RbAfterReads(rb, quorum \cup nal),
                          IF known THEN LeaderWaiters(rb) ELSE {}, "ok")
          /\ Deliver(quorum \cup nal \cup dc.results \cup da.results
                     \cup (IF stepped
                           THEN {Out("stepdown", 0, 0, sd, NoServer, NoServer)}
                           ELSE {})
                     \cup (IF known
                           THEN {Out("leader", 0, 0, "ok", NoServer, NoServer)}
                           ELSE {}))
    /\ io_pc' = "poll"
    /\ io_batch' = EmptyBatch
    /\ UNCHANGED <<fsm, applied_idx, queueVars, last_stable, persisted, apVars,
                   awaited_indexes, current_rpc_config, rpc_servers,
                   next_snapshot_transfer_id,
                   snapshot_application_done, append_request_status, ctlVars,
                   failed_assert>>

\* poll_output() on the stopped FSM with nothing to report throws
\* broken_condition_variable: the fiber returns
IoPollBroken ==
    /\ Running /\ Quiescent
    /\ io_pc = "poll" /\ fsm.stopped /\ ~has_output(fsm)
    /\ io_pc' = "exited"
    /\ Quiet
    /\ UNCHANGED <<fsm, applied_idx, waiterVars, queueVars, io_batch,
                   last_stable, persisted,
                   apVars, readVars, stepdown_promise, netVars, ctlVars,
                   failed_assert>>

\* push_eventually() on the aborted queue throws stop_apply_fiber: the fiber
\* returns
IoPushBroken ==
    /\ Running /\ Quiescent
    /\ io_pc \in {"push_snp", "push_committed"} /\ queue_aborted
    /\ io_pc' = "exited"
    /\ io_batch' = EmptyBatch
    /\ Quiet
    /\ UNCHANGED <<fsm, applied_idx, waiterVars, queueVars, last_stable, persisted,
                   apVars, readVars, stepdown_promise, netVars, ctlVars,
                   failed_assert>>

\* the transfers whose _rpc->send_snapshot has not returned
InFlight ==
    {Transfer(snapshot_transfers[d], d) : d \in DOMAIN snapshot_transfers}
        \cup aborted_snapshot_transfers

\* if (_aborted_snapshot_transfers.erase(id)): the transfer was aborted
TransferAbortedNever(aborted, id) == FALSE
TransferAborted(aborted, id) == \E a \in aborted : a.id = id

\* _fsm->step(dst, snapshot_reply): the FSM may send the server a snapshot
\* again
fsm_snapshot_reply(f, dst) == [f EXCEPT !.snap_sent = @ \ {dst}]

\* a snapshot transfer ended (the reply arrived, or the call failed): an
\* aborted transfer is forgotten, else the entry of the destination is
\* erased and the reply is stepped into the FSM
TransferEnded(id) ==
    /\ Running /\ Quiescent
    /\ \E t \in InFlight :
          /\ t.id = id
          /\ IF TransferAborted(aborted_snapshot_transfers, id)
             THEN /\ aborted_snapshot_transfers' =
                         {a \in aborted_snapshot_transfers : a.id # id}
                  /\ Deliver({Out("transfer", id, 0, "ignored", t.dst, NoServer)})
                  /\ UNCHANGED <<fsm, snapshot_transfers>>
             ELSE /\ snapshot_transfers' = Restrict(snapshot_transfers,
                                                   DOMAIN snapshot_transfers \ {t.dst})
                  /\ fsm' = fsm_snapshot_reply(fsm, t.dst)
                  /\ Deliver({Out("transfer", id, 0, "stepped", t.dst, NoServer)})
                  /\ UNCHANGED aborted_snapshot_transfers
    /\ UNCHANGED <<applied_idx, waiterVars, queueVars, ioVars, apVars, readVars,
                   stepdown_promise, current_rpc_config, rpc_servers,
                   next_snapshot_transfer_id,
                   snapshot_application_done, append_request_status, ctlVars,
                   failed_assert>>

\* send_append_entries returned or threw (the exception is caught): count--,
\* the record of the destination is erased when the count is zero, and the
\* link returns, which lets the next link of the chain call the rpc
AppendSent(d) ==
    /\ Running /\ Quiescent
    /\ d \in DOMAIN append_request_status
    /\ append_request_status[d].chain # <<>>
    /\ append_request_status' = LinkReturned(append_request_status, d)
    /\ \E res \in {"ok", "failed"} :
          Deliver({Out("append_sent", Head(append_request_status[d].chain), 0, res,
                       d, NoServer)})
    /\ UNCHANGED <<fsm, applied_idx, waiterVars, queueVars, ioVars, apVars, readVars,
                   stepdown_promise, current_rpc_config, rpc_servers,
                   snapshot_transfers,
                   aborted_snapshot_transfers, next_snapshot_transfer_id,
                   snapshot_application_done, ctlVars, failed_assert>>

\* ============================================================ read barriers
\* wait_for_apply(idx): nothing to wait for when idx is applied, else a
\* promise is put into _awaited_indexes
MustWaitNever(idx) == FALSE
MustWait(idx) == idx > applied_idx

\* wait_for_apply(++applied): the index read_barrier() waits for before it
\* asks again, applied being _applied_idx as it was before the request
RetryIndexNow(applied) == applied
RetryIndex(applied) == applied + 1

\* execute_read_barrier(from) on this node, called by the rpc layer for
\* another server: the barrier is put at the back of _reads, or the reply is
\* ready at once (not_a_leader, or nothing: not ready)
execute_read_barrier(from) ==
    /\ Serving
    /\ Len(reads) < lim.max_reads /\ fsm.last_read_id < lim.max_reads
    /\ IF is_leader(fsm) /\ read_barrier_ready(fsm)
       THEN /\ fsm' = fsm_start_read_barrier(fsm)
            /\ reads' = Append(reads, [id |-> fsm.last_read_id + 1,
                                       idx |-> fsm.commit_idx, from |-> from,
                                       term |-> fsm.term])
            /\ Quiet
       ELSE /\ Deliver({Out("read", 0, 0,
                            IF is_leader(fsm) THEN "not_ready" ELSE "not_a_leader",
                            from, current_leader(fsm))})
            /\ UNCHANGED <<fsm, reads>>
    /\ UNCHANGED <<applied_idx, waiterVars, queueVars, ioVars, apVars,
                   awaited_indexes, leader_promise, rb, stepdown_promise, netVars,
                   ctlVars, failed_assert>>

\* read_barrier() is called: the leader the FSM knows, read_idx of zero
read_barrier(c) ==
    /\ Serving
    /\ rb[c].pc = "idle"
    /\ rb' = [rb EXCEPT ![c] = [RbIdle EXCEPT !.pc = "loop",
                                              !.leader = current_leader(fsm),
                                              !.acked = acked_idx]]
    /\ Quiet
    /\ UNCHANGED <<fsm, applied_idx, waiterVars, queueVars, ioVars, apVars,
                   reads, awaited_indexes, leader_promise, stepdown_promise,
                   netVars, ctlVars, failed_assert>>

\* one pass of the loop of read_barrier(), up to its co_await; after the
\* loop, wait_for_apply(read_idx)
RbLoop(c) ==
    /\ Running
    /\ rb[c].pc = "loop"
    /\ LET r == [rb[c] EXCEPT !.res = "none", !.val = 0, !.hint = NoServer] IN
       IF r.read_idx # 0
       THEN /\ IF MustWait(r.read_idx)
               THEN /\ awaited_indexes' = awaited_indexes \cup {[idx |-> r.read_idx, c |-> c]}
                    /\ rb' = [rb EXCEPT ![c] = [r EXCEPT !.pc = "wait_apply"]]
               ELSE /\ rb' = [rb EXCEPT ![c] = [r EXCEPT !.pc = "done"]]
                    /\ UNCHANGED awaited_indexes
            /\ UNCHANGED <<fsm, reads, leader_promise>>
       ELSE IF r.leader = NoServer
       THEN /\ IF leader_promise = "failed"
               THEN /\ rb' = [rb EXCEPT ![c] = [r EXCEPT !.pc = "failed"]]
                    /\ UNCHANGED leader_promise
               ELSE /\ rb' = [rb EXCEPT ![c] = [r EXCEPT !.pc = "wait_leader"]]
                    /\ leader_promise' = "pending"
            /\ UNCHANGED <<fsm, reads, awaited_indexes>>
       ELSE IF r.leader # Self
       THEN /\ rb' = [rb EXCEPT ![c] = [r EXCEPT !.pc = "rpc", !.applied = applied_idx,
                                                 !.floor = fsm.commit_idx]]
            /\ UNCHANGED <<fsm, reads, awaited_indexes, leader_promise>>
       ELSE IF ~is_leader(fsm)
       THEN /\ rb' = [rb EXCEPT ![c] = [r EXCEPT !.leader = current_leader(fsm)]]
            /\ UNCHANGED <<fsm, reads, awaited_indexes, leader_promise>>
       ELSE IF ~read_barrier_ready(fsm)
       THEN /\ IF MustWait(RetryIndex(applied_idx))
               THEN /\ awaited_indexes' =
                           awaited_indexes \cup {[idx |-> RetryIndex(applied_idx), c |-> c]}
                    /\ rb' = [rb EXCEPT ![c] = [r EXCEPT !.pc = "wait_retry",
                                                         !.applied = applied_idx]]
               ELSE /\ rb' = [rb EXCEPT ![c] = r]
                    /\ UNCHANGED awaited_indexes
            /\ UNCHANGED <<fsm, reads, leader_promise>>
       ELSE /\ fsm.last_read_id < lim.max_reads
            /\ fsm' = fsm_start_read_barrier(fsm)
            /\ reads' = Append(reads, [id |-> fsm.last_read_id + 1,
                                       idx |-> fsm.commit_idx, from |-> c,
                                       term |-> fsm.term])
            /\ rb' = [rb EXCEPT ![c] = [r EXCEPT !.pc = "wait_read"]]
            /\ UNCHANGED <<awaited_indexes, leader_promise>>
    /\ Quiet
    /\ UNCHANGED <<applied_idx, waiterVars, queueVars, ioVars, apVars,
                   stepdown_promise, netVars, ctlVars, failed_assert>>

\* the caller resumes after wait_for_leader(), after the promise of its read
\* and after wait_for_apply()
RbResume(c) ==
    /\ Running /\ Quiescent
    /\ rb[c].pc \in {"wait_leader", "wait_read", "wait_retry", "wait_apply"}
    /\ rb[c].res # "none"
    /\ rb' = [rb EXCEPT ![c] =
                 IF rb[c].res = "stopped" THEN [@ EXCEPT !.pc = "failed"]
                 ELSE IF rb[c].pc = "wait_leader"
                 THEN [@ EXCEPT !.pc = "loop", !.leader = current_leader(fsm)]
                 ELSE IF rb[c].pc = "wait_read"
                 THEN IF rb[c].res = "index"
                      THEN [@ EXCEPT !.pc = "loop", !.read_idx = rb[c].val]
                      ELSE [@ EXCEPT !.pc = "loop", !.leader = rb[c].hint]
                 ELSE IF rb[c].pc = "wait_retry"
                 THEN [@ EXCEPT !.pc = "loop", !.applied = 0]
                 ELSE [@ EXCEPT !.pc = "done"]]
    /\ Quiet
    /\ UNCHANGED <<fsm, applied_idx, waiterVars, queueVars, ioVars, apVars,
                   reads, awaited_indexes, leader_promise, stepdown_promise,
                   netVars, ctlVars, failed_assert>>

\* the reply of execute_read_barrier_on_leader(leader) arrives: nothing (not
\* ready), not_a_leader with a hint, or an index
RbRpcReply(c, res, h, i) ==
    /\ Running /\ Quiescent
    /\ abort_pc \in {"none", "join"}
    /\ rb[c].pc = "rpc"
    /\ IF res = "not_ready" /\ MustWait(RetryIndex(rb[c].applied))
       THEN /\ awaited_indexes' =
                   awaited_indexes \cup {[idx |-> RetryIndex(rb[c].applied), c |-> c]}
            /\ rb' = [rb EXCEPT ![c] = [@ EXCEPT !.pc = "wait_retry", !.floor = 0]]
       ELSE /\ rb' = [rb EXCEPT ![c] =
                        IF res = "not_ready"
                        THEN [@ EXCEPT !.pc = "loop", !.applied = 0, !.floor = 0]
                        ELSE IF res = "not_a_leader"
                        THEN [@ EXCEPT !.pc = "loop", !.leader = h,
                                       !.applied = 0, !.floor = 0]
                        ELSE [@ EXCEPT !.pc = "loop", !.read_idx = i,
                                       !.applied = 0, !.floor = 0]]
            /\ UNCHANGED awaited_indexes
    /\ Quiet
    /\ UNCHANGED <<fsm, applied_idx, waiterVars, queueVars, ioVars, apVars,
                   reads, leader_promise, stepdown_promise, netVars, ctlVars,
                   failed_assert>>

\* the call of execute_read_barrier_on_leader fails: read_barrier() throws
RbRpcFailed(c) ==
    /\ Running /\ Quiescent
    /\ rb[c].pc = "rpc"
    /\ rb' = [rb EXCEPT ![c] = [@ EXCEPT !.pc = "failed"]]
    /\ Quiet
    /\ UNCHANGED <<fsm, applied_idx, waiterVars, queueVars, ioVars, apVars,
                   reads, awaited_indexes, leader_promise, stepdown_promise,
                   netVars, ctlVars, failed_assert>>

\* ======================================================== set_configuration
\* cfg.diff(c_new) against the current half of the configuration
ConfDiff(cfg, c_new) ==
    [joining |-> c_new \ cfg.current, leaving |-> cfg.current \ c_new]
NoChangeNever(d) == FALSE
NoChange(d) == d.joining = {} /\ d.leaving = {}

\* set_configuration(c_new) up to its first co_await: nothing to do for an
\* empty diff; else the configuration entry is added and its commit awaited.
\* fsm.add_entry throws off the leader and while a change is in progress.
set_configuration(c_new) ==
    /\ Serving
    /\ sc.pc \in ScReturned
    /\ LET cfg == get_configuration(fsm)
           refused == ~is_leader(fsm) \/ conf_change_in_progress(fsm)
       IN IF NoChange(ConfDiff(cfg, c_new))
          THEN /\ sc' = [ScIdle EXCEPT !.pc = "returned", !.arg = c_new]
               /\ delivered' = {} /\ acked_idx' = acked_idx
               /\ UNCHANGED <<fsm, applied_idx, waiterVars, queueVars, ioVars,
                              apVars, readVars, stepdown_promise, netVars,
                              ctlVars, failed_assert>>
          ELSE IF refused
          THEN /\ sc' = [ScIdle EXCEPT !.pc = "failed", !.arg = c_new]
               /\ delivered' = {} /\ acked_idx' = acked_idx
               /\ UNCHANGED <<fsm, applied_idx, waiterVars, queueVars, ioVars,
                              apVars, readVars, stepdown_promise, netVars,
                              ctlVars, failed_assert>>
          ELSE /\ CanAdd
               /\ add_entry_internal(
                      ConfEntry(fsm.term, c_new, cfg.current), "committed",
                      [ScIdle EXCEPT !.pc = "wait_conf", !.arg = c_new,
                                     !.idx = log_last_idx(fsm) + 1,
                                     !.term = fsm.term,
                                     !.conf_idx = log_last_idx(fsm) + 1])

\* co_await add_entry_internal(...) returns when the waiter was fulfilled and
\* throws what the waiter failed with
WaitIgnoresFailure(s) == TRUE
WaitSucceeded(s) == s.res = "ok"

\* the configuration entry is committed (or its waiter failed): the dummy
\* entry is added and its commit awaited
ScConfCommitted ==
    /\ Running /\ Quiescent
    /\ sc.pc = "wait_conf" /\ sc.res # "none"
    /\ IF ~WaitSucceeded(sc) \/ ~is_leader(fsm) \/ fsm.stopped
       THEN /\ sc' = [sc EXCEPT !.pc = "failed"]
            /\ delivered' = {} /\ acked_idx' = acked_idx
            /\ UNCHANGED <<fsm, applied_idx, waiterVars, queueVars, ioVars,
                           apVars, readVars, stepdown_promise, netVars,
                           ctlVars, failed_assert>>
       ELSE /\ CanAdd
            /\ add_entry_internal(
                   Entry(fsm.term, "dummy"), "committed",
                   [sc EXCEPT !.pc = "wait_dummy", !.res = "none",
                              !.idx = log_last_idx(fsm) + 1, !.term = fsm.term])

\* the dummy entry is committed (or its waiter failed): set_configuration
\* returns
ScDummyCommitted ==
    /\ Running /\ Quiescent
    /\ sc.pc = "wait_dummy" /\ sc.res # "none"
    /\ sc' = [sc EXCEPT !.pc = IF WaitSucceeded(sc) THEN "done" ELSE "failed"]
    /\ delivered' = {} /\ acked_idx' = acked_idx
    /\ UNCHANGED <<fsm, applied_idx, waiterVars, queueVars, ioVars, apVars,
                   readVars, stepdown_promise, netVars, ctlVars, failed_assert>>

\* ================================================================= stepdown
\* if (_stepdown_promise): a second call fails and leaves the promise alone
StepdownRefused == stepdown_promise

\* stepdown(timeout): refused while another one is pending; else
\* fsm.transfer_leadership, which throws off the leader; else the promise is
\* created
stepdown ==
    /\ Serving
    /\ IF StepdownRefused
       THEN /\ Deliver({Out("stepdown_call", 0, 0, "logic_error", NoServer, NoServer)})
            /\ UNCHANGED <<fsm, stepdown_promise>>
       ELSE IF ~is_leader(fsm)
       THEN /\ Deliver({Out("stepdown_call", 0, 0, "not_a_leader", NoServer, NoServer)})
            /\ UNCHANGED <<fsm, stepdown_promise>>
       ELSE /\ fsm' = [fsm EXCEPT !.leadership_transfer = TRUE]
            /\ stepdown_promise' = TRUE
            /\ Quiet
    /\ UNCHANGED <<applied_idx, waiterVars, queueVars, ioVars, apVars, readVars,
                   netVars, ctlVars, failed_assert>>

\* ================================================================== abort()
\* fsm.stop(), _apply_entries.abort(); then the fibers and the collaborators
\* are awaited
abort ==
    /\ Serving
    /\ fsm' = [fsm EXCEPT !.stopped = TRUE]
    /\ queue_aborted' = TRUE
    /\ apply_entries' = <<>>
    /\ abort_pc' = "join"
    /\ Quiet
    /\ UNCHANGED <<applied_idx, waiterVars, ioVars, apVars, readVars,
                   stepdown_promise, netVars, started, lim, failed_assert>>

\* co_await when_all_succeed(_io_status, _applier_status, ...)
FibersNotAwaited == TRUE
FibersEnded == io_pc = "exited" /\ ap_pc = "exited"

\* what abort() sets once the fibers ended
StoppedWaitersUnknown(kind, w) ==
    {Outcome(kind, w, k, "commit_status_unknown") : k \in DOMAIN w}
StoppedWaiters(kind, w) == {Outcome(kind, w, k, "stopped") : k \in DOMAIN w}
AbortOutcomes ==
    StoppedWaiters("commit", awaited_commits)
    \cup StoppedWaiters("apply", awaited_applies)
    \cup (IF leader_promise # "none"
          THEN {Out("leader", 0, 0, "stopped", NoServer, NoServer)} ELSE {})
    \cup ReadOutcomes(reads, 1, Len(reads), "not_a_leader", NoServer)
    \cup {Out("index", w.idx, 0, "stopped", w.c, NoServer) : w \in awaited_indexes}
    \cup UNION {SnapshotAnswered(d, "aborted") : d \in snapshot_application_done}

\* the fibers and rpc, state machine and persistence ended: every promise is
\* set, the transfers are aborted; then the aborted transfers and the append
\* chains are awaited
AbortJoined ==
    /\ Running /\ Quiescent
    /\ abort_pc = "join"
    /\ FibersEnded
    /\ \A c \in Callers : rb[c].pc # "rpc"
    /\ awaited_commits' = EmptyMap /\ awaited_applies' = EmptyMap
    /\ leader_promise' = IF leader_promise # "none" THEN "failed" ELSE "none"
    /\ reads' = <<>>
    /\ awaited_indexes' = {}
    /\ rb' = RbWake(RbWake(RbAfterReads(rb, ReadOutcomes(reads, 1, Len(reads),
                                                         "not_a_leader", NoServer)),
                           LeaderWaiters(rb), "stopped"),
                    {w.c : w \in awaited_indexes}, "stopped")
    /\ LET t == AbortTransfers(snapshot_transfers, aborted_snapshot_transfers,
                               DOMAIN snapshot_transfers)
       IN /\ snapshot_transfers' = t.transfers
          /\ aborted_snapshot_transfers' = t.aborted
    /\ Deliver(AbortOutcomes)
    /\ abort_pc' = "drain"
    /\ UNCHANGED <<fsm, applied_idx, queueVars, ioVars, apVars, stepdown_promise,
                   current_rpc_config, rpc_servers, next_snapshot_transfer_id,
                   snapshot_application_done, append_request_status, started, lim,
                   failed_assert>>

\* the aborted transfers and the append chains ended: abort() returns
AbortDone ==
    /\ Running /\ Quiescent
    /\ abort_pc = "drain"
    /\ aborted_snapshot_transfers = {}
    /\ \A d \in DOMAIN append_request_status : append_request_status[d].chain = <<>>
    /\ abort_pc' = "done"
    /\ Quiet
    /\ UNCHANGED <<fsm, applied_idx, waiterVars, queueVars, ioVars, apVars,
                   readVars, stepdown_promise, netVars, started, lim,
                   failed_assert>>

\* ========================================================= the environment
\* What the FSM does when the rpc handlers and tick() step it.
FsmOnly ==
    /\ Quiet
    /\ UNCHANGED <<applied_idx, waiterVars, queueVars, ioVars, apVars, readVars,
                   stepdown_promise, netVars, ctlVars, failed_assert>>
FsmSteps == Running /\ Quiescent /\ ~fsm.stopped

\* a committed joint configuration with no configuration after it
JointCommitted(f) ==
    is_joint(get_configuration(f)) /\ last_conf_idx(f) <= f.commit_idx

\* request_vote_reply: the node wins an election and appends a dummy entry;
\* the read ids and the snapshot transfers of a leadership start afresh
FsmBecomeLeader ==
    /\ FsmSteps
    /\ ~fsm.is_leader
    /\ ~JointCommitted(fsm)
    /\ fsm.term < lim.max_term /\ Len(fsm.log) < lim.max_idx
    /\ fsm' = [fsm EXCEPT !.term = @ + 1, !.is_leader = TRUE, !.leader = Self,
                          !.my_terms = @ \cup {fsm.term + 1},
                          !.log = Append(@, Entry(fsm.term + 1, "dummy")),
                          !.last_read_id = 0, !.max_read_id = 0, !.read_out = 0,
                          !.snap_sent = {},
                          !.tv_dirty = TRUE]
    /\ FsmOnly

\* election timeout: the node becomes a candidate of the next term and asks
\* for votes; the requests are messages of its next output
FsmBecomeCandidate ==
    /\ FsmSteps
    /\ ~fsm.is_leader /\ fsm.campaign = "none"
    /\ fsm.term < lim.max_term
    /\ fsm' = [fsm EXCEPT !.term = @ + 1, !.leader = NoServer, !.tv_dirty = TRUE,
                          !.msgs = Append(@, Message("B", "vote_request", FALSE)),
                          !.campaign = "asked"]
    /\ FsmOnly

\* the vote requests of the candidate were sent by io_fiber
VotesRequested ==
    /\ fsm.campaign = "polled"
    /\ io_pc \notin {"store_tv", "store_snp", "push_snp", "truncate", "store_log",
                     "dispatch"}

\* request_vote_reply to a candidate whose requests went out: it leads its
\* term, as in FsmBecomeLeader
FsmWinElection ==
    /\ FsmSteps
    /\ ~fsm.is_leader /\ VotesRequested
    /\ ~JointCommitted(fsm)
    /\ Len(fsm.log) < lim.max_idx
    /\ fsm' = [fsm EXCEPT !.is_leader = TRUE, !.leader = Self,
                          !.my_terms = @ \cup {fsm.term},
                          !.log = Append(@, Entry(fsm.term, "dummy")),
                          !.last_read_id = 0, !.max_read_id = 0, !.read_out = 0,
                          !.snap_sent = {}, !.campaign = "none"]
    /\ FsmOnly

\* the leadership transfer times out on the logical clock: the FSM reports
\* abort_leadership_transfer with its next output
FsmTransferTimeout ==
    /\ FsmSteps
    /\ fsm.is_leader /\ fsm.leadership_transfer
    /\ fsm' = [fsm EXCEPT !.leadership_transfer = FALSE,
                          !.abort_leadership_transfer = TRUE]
    /\ FsmOnly

\* a message of a higher term: the leader becomes a follower
FsmBecomeFollower(l) ==
    /\ FsmSteps
    /\ fsm.is_leader
    /\ fsm.term < lim.max_term
    /\ fsm' = [fsm EXCEPT !.term = @ + 1, !.is_leader = FALSE, !.leader = l,
                          !.read_out = 0, !.tv_dirty = TRUE,
                          !.leadership_transfer = FALSE, !.campaign = "none"]
    /\ FsmOnly

\* append_entries on a follower: the log is cut at index k when the entry
\* there is of another term, and the leader's entry e is appended; a
\* candidate that accepts the request follows that leader
FsmAppend(k, e) ==
    /\ FsmSteps
    /\ ~fsm.is_leader
    /\ k > fsm.commit_idx /\ k <= Len(fsm.log) + 1 /\ k <= lim.max_idx
    /\ e.term <= fsm.term /\ e.term \notin fsm.my_terms
    /\ k > 1 => fsm.log[k - 1].term <= e.term
    /\ k <= Len(fsm.log) => fsm.log[k].term # e.term
    /\ fsm' = [fsm EXCEPT !.log = Append(SubSeq(@, 1, k - 1), e),
                          !.stable_idx = Min(@, k - 1),
                          !.campaign = "none"]
    /\ FsmOnly

\* the entry a follower gets after a joint configuration: the leader that
\* committed the joint configuration left it
LeaveJoint(f, t) == ConfEntry(t, get_configuration(f).current, {})

\* the commit index advances: on the leader to an entry of its own term, and
\* the leader that commits a joint configuration appends the configuration
\* that leaves it; a follower learns of the commit of a joint configuration
\* after it got the entry that leaves it
FsmCommit(n) ==
    /\ FsmSteps
    /\ n > fsm.commit_idx /\ n <= Len(fsm.log)
    /\ fsm.is_leader => fsm.log[n].term = fsm.term
    /\ LET leaves == is_joint(get_configuration(fsm))
                     /\ last_conf_idx(fsm) > fsm.commit_idx
                     /\ last_conf_idx(fsm) <= n
       IN IF leaves
          THEN /\ fsm.is_leader
               /\ Len(fsm.log) < lim.max_idx
               /\ fsm' = [fsm EXCEPT !.commit_idx = n,
                                     !.log = Append(@, LeaveJoint(fsm, fsm.term))]
          ELSE fsm' = [fsm EXCEPT !.commit_idx = n]
    /\ FsmOnly

\* read_quorum_reply: a quorum confirms the leader for the reads up to id
FsmReadQuorum(id) ==
    /\ FsmSteps
    /\ fsm.is_leader
    /\ id > fsm.max_read_id /\ id <= fsm.last_read_id
    /\ fsm' = [fsm EXCEPT !.max_read_id = id, !.read_out = id]
    /\ FsmOnly

\* the leader has a message for a follower: an append_request, or an
\* install_snapshot when no transfer to the follower is under way
FsmSend(d, type) ==
    /\ FsmSteps
    /\ fsm.is_leader
    /\ fsm.n_sent < lim.max_msgs
    /\ type = "install_snapshot" => d \notin fsm.snap_sent
    /\ fsm' = [fsm EXCEPT !.msgs = Append(@, IF type = "append_request"
                                             THEN [Message(d, type, FALSE)
                                                      EXCEPT !.seq = fsm.n_sent + 1]
                                             ELSE Message(d, type, FALSE)),
                          !.n_sent = @ + 1,
                          !.snap_sent = IF type = "install_snapshot"
                                        THEN @ \cup {d} ELSE @]
    /\ FsmOnly

\* the servers whose install_snapshot has no answer yet: the snapshot_reply
\* is among the messages of the FSM or of a batch that is not dispatched
SnapshotReplies(msgs) ==
    {msgs[i].dst : i \in {j \in DOMAIN msgs : msgs[j].type = "snapshot_reply"}}
ReplyOwed ==
    SnapshotReplies(fsm.msgs)
        \cup (IF io_pc \in {"store_tv", "store_snp", "push_snp", "truncate",
                            "store_log", "dispatch"}
              THEN SnapshotReplies(io_batch.messages) ELSE {})

\* apply_snapshot(from, snp): the snapshot is stepped into the FSM, which
\* answers with a snapshot_reply; assert(!_snapshot_application_done
\* .contains(from)); the promise the reply fulfils is created.  A sender
\* sends its next snapshot when the one before was answered.
apply_snapshot(from, sidx, sterm) ==
    /\ Running /\ Quiescent /\ abort_pc = "none"
    /\ ~fsm.is_leader /\ ~fsm.stopped
    /\ sterm <= fsm.term /\ sterm >= 1
    /\ fsm.commit_idx > 0 => sterm >= fsm.log[fsm.commit_idx].term
    /\ sidx <= Len(fsm.log) => sterm >= fsm.log[sidx].term
    /\ from \notin ReplyOwed
    /\ IF from \in snapshot_application_done
       THEN Crash("snapshot_pending")
       ELSE /\ LET ok == fsm_snapshot_accepted(fsm, sidx, FALSE)
                   f == IF ok THEN fsm_apply_snapshot(fsm, sidx, sterm, FALSE)
                        ELSE fsm
               IN fsm' = [f EXCEPT !.msgs = Append(@, Message(from, "snapshot_reply", ok))]
            /\ snapshot_application_done' = snapshot_application_done \cup {from}
            /\ Quiet
            /\ UNCHANGED <<applied_idx, waiterVars, queueVars, ioVars, apVars,
                           readVars, stepdown_promise, current_rpc_config,
                           rpc_servers, snapshot_transfers,
                           aborted_snapshot_transfers, next_snapshot_transfer_id,
                           append_request_status, ctlVars, failed_assert>>

\* the leader the caller asked answers: with an index no smaller than what
\* was committed when it was asked
LeaderReplies(c, res, h, i) ==
    /\ res = "not_a_leader" => h # rb[c].leader
    /\ res # "not_a_leader" => h = NoServer
    /\ res = "index" => i >= Max(1, rb[c].floor)
    /\ res # "index" => i = 0
    /\ RbRpcReply(c, res, h, i)

\* ============================================================ specifications
Limits(idx, term, waiters, nreads, msgs, yields) ==
    [max_idx |-> idx, max_term |-> term, max_waiters |-> waiters,
     max_reads |-> nreads, max_msgs |-> msgs, persist_yields |-> yields,
     sync_rpc |-> FALSE, send_throws |-> FALSE,
     config |-> [snapshot_threshold |-> snapshot_threshold,
                 max_log_size |-> max_log_size]]

InitWith(l) ==
    /\ fsm = FsmNew(0, 0, 0)
    /\ started = FALSE
    /\ applied_idx = 0
    /\ awaited_commits = EmptyMap /\ awaited_applies = EmptyMap
    /\ apply_entries = <<>> /\ queue_aborted = FALSE
    /\ io_pc = "idle" /\ io_batch = EmptyBatch /\ last_stable = 0
    /\ persisted = {}
    /\ ap_pc = "idle" /\ ap_item = NoItem
    /\ reads = <<>> /\ awaited_indexes = {} /\ leader_promise = "none"
    /\ stepdown_promise = FALSE
    /\ rb = [c \in Callers |-> RbIdle]
    /\ sc = ScIdle
    /\ current_rpc_config = {} /\ rpc_servers = {}
    /\ snapshot_transfers = EmptyMap /\ aborted_snapshot_transfers = {}
    /\ next_snapshot_transfer_id = 0
    /\ snapshot_application_done = {}
    /\ append_request_status = EmptyMap
    /\ abort_pc = "none"
    /\ lim = l
    /\ delivered = {} /\ acked_idx = 0
    /\ failed_assert = "none"

Applier == ApplierPop \/ ApplierApplied \/ ApplierSnapshotTaken \/ ApplierSnapshotLoaded
Io == IoPoll \/ IoPersisted \/ IoStoredLog \/ IoPushSnp \/ IoDispatch
        \/ IoPushCommitted \/ IoFinish

\* ---- the apply pipeline: entries, leadership changes, remote snapshots
Init == InitWith(Limits(MaxIdx, MaxTerm, MaxWaiters, 0, 1, FALSE))
Next ==
    \/ \E sidx \in 0..1 : Start(sidx)
    \/ \E type \in {"committed", "applied"} : add_entry(type)
    \/ Applier \/ Io
    \/ FsmBecomeLeader
    \/ FsmBecomeFollower("B")
    \/ \E k \in 1..MaxIdx, t \in 1..MaxTerm : FsmAppend(k, Entry(t, "cmd"))
    \/ \E n \in 1..MaxIdx : FsmCommit(n)
    \/ \E sidx \in 1..MaxIdx, sterm \in 1..MaxTerm : apply_snapshot("B", sidx, sterm)

Spec == Init /\ [][Next]_vars

\* ---- read barriers: callers on this node, barriers of other servers
MaxReads == 2       \* barriers pending in _reads at one time
InitRead == InitWith(Limits(MaxIdx, MaxTerm, 1, MaxReads, 1, FALSE))
ReplyKinds == {"not_ready", "not_a_leader", "index"}
NextRead ==
    \/ Start(0)
    \/ add_entry("committed")
    \/ Applier \/ Io
    \/ FsmBecomeLeader
    \/ \E l \in {"B", NoServer} : FsmBecomeFollower(l)
    \/ \E n \in 1..MaxIdx : FsmCommit(n)
    \/ \E id \in 1..MaxReads : FsmReadQuorum(id)

    \/ read_barrier("r1") \/ RbLoop("r1") \/ RbResume("r1") \/ RbRpcFailed("r1")
    \/ \E res \in ReplyKinds, h \in {Self, NoServer}, i \in 0..MaxIdx :
          LeaderReplies("r1", res, h, i)
    \/ \E sidx \in 1..MaxIdx, sterm \in 1..MaxTerm : apply_snapshot("B", sidx, sterm)

SpecRead == InitRead /\ [][NextRead]_vars

\* ---- abort(): every kind of promise pending, transfers and append chains
\* under way, the persistence calls of io_fiber as suspension points
AbortMaxIdx == 2    \* length of the log under abort()
AbortMaxTerm == 2   \* terms under abort()
InitAbort == InitWith(Limits(AbortMaxIdx, AbortMaxTerm, MaxWaiters, MaxReads, 1, FALSE))
IoStep == Io \/ IoPollBroken \/ IoPushBroken
ApplierStep == Applier \/ ApplierStopped
NextAbort ==
    \/ Start(0)
    \/ \E type \in {"committed", "applied"} : add_entry(type)
    \/ IoStep \/ ApplierStep
    \/ FsmBecomeLeader
    \/ FsmBecomeFollower(NoServer)
    \/ \E n \in 1..MaxIdx : FsmCommit(n)
    \/ \E id \in 1..MaxReads : FsmReadQuorum(id)
    \/ apply_snapshot("B", 2, 1)
    \/ \E c \in Callers : read_barrier(c) \/ RbLoop(c) \/ RbResume(c)
    \/ abort \/ AbortJoined \/ AbortDone

SpecAbort == InitAbort /\ [][NextAbort]_vars

\* ---- abort() while the fibers are suspended anywhere, with transfers and
\* append chains under way
StopMaxMsgs == 2    \* messages the FSM sends before abort()
StopMaxTerm == 3    \* terms: leadership is lost and regained
InitStop == InitWith(Limits(AbortMaxIdx, StopMaxTerm, 1, 0, StopMaxMsgs, TRUE))
NextStop ==
    \/ Start(0)
    \/ add_entry("applied")
    \/ IoStep \/ ApplierStep
    \/ FsmBecomeLeader
    \/ FsmBecomeFollower("B")
    \/ \E n \in 1..MaxIdx : FsmCommit(n)
    \/ \E type \in {"append_request", "install_snapshot"} : FsmSend("B", type)
    \/ apply_snapshot("B", 2, 1)
    \/ \E id \in 0..StopMaxMsgs : TransferEnded(id)
    \/ AppendSent("B")
    \/ abort \/ AbortJoined \/ AbortDone

StopFairness ==
    /\ WF_vars(IoStep) /\ WF_vars(ApplierStep)
    /\ WF_vars(\E id \in 0..StopMaxMsgs : TransferEnded(id)) /\ WF_vars(AppendSent("B"))
    /\ WF_vars(AbortJoined) /\ WF_vars(AbortDone)

SpecStop == InitStop /\ [][NextStop]_vars /\ StopFairness

\* ==================================================================== claims
WaiterOutcomes == {r \in delivered : r.kind \in {"commit", "apply"}}

\* C1: a waiter at index i with recorded term t is fulfilled only when the
\* committed entry at i has term t, and one that fails with dropped_entry
\* stands for an entry of another term: when the batch covers i the
\* committed entry at i has another term, and when it does not (the waiter's
\* term is older than the last committed term) the log holds no entry of
\* term t at i.
C1_TermDecidesOutcome ==
    \A r \in WaiterOutcomes :
        /\ r.res = "ok" =>
               r.idx <= fsm.commit_idx /\ fsm.log[r.idx].term = r.term
        /\ (r.res = "dropped_entry" /\ r.idx <= Len(fsm.log)) =>
               fsm.log[r.idx].term # r.term

\* one notification fulfils a waiter and fails another whose entry was
\* replaced
C1_Witness ==
    \E r1, r2 \in WaiterOutcomes :
        /\ r1.res = "ok" /\ r2.res = "dropped_entry"
        /\ r2.idx <= fsm.commit_idx
\* the batch the applier took from the queue and has not finished
InBatch == ap_pc \in {"apply", "applied"}

\* C2: while the commands of a batch are with state_machine.apply no commit
\* waiter at an index the batch covers is pending; when an apply waiter at a
\* covered index is resolved no commit waiter is pending at that index; an
\* apply waiter is fulfilled only when _applied_idx has reached its index.
C2_CommitBeforeApply ==
    /\ InBatch => \A k \in DOMAIN awaited_commits : k > Last(ap_item.entries).idx
    /\ \A r \in delivered :
          (r.kind = "apply" /\ r.idx <= applied_idx) => r.idx \notin DOMAIN awaited_commits
    /\ \A r \in delivered :
          (r.kind = "apply" /\ r.res = "ok") => applied_idx >= r.idx

\* an apply waiter is fulfilled after a commit waiter was
C2_Witness ==
    \E r \in delivered :
        r.kind = "apply" /\ r.res = "ok" /\ acked_idx > 0 /\ acked_idx < r.idx

\* C3: no step makes _applied_idx smaller.
C3_AppliedMonotonic == [][applied_idx' >= applied_idx]_vars

\* _applied_idx was set by a batch after it was set by a remote snapshot
C3_Witness ==
    /\ applied_idx >= 2
    /\ \E i \in 1..(applied_idx - 1) : fsm.log[i].kind = "snp" /\ fsm.snap_idx >= i
    /\ fsm.log[applied_idx].kind = "cmd"

\* C4: the assert on the contiguity of a batch never fails: the first index
\* of the batch the applier works on is _applied_idx + 1, its indexes are
\* consecutive, and after the batch _applied_idx is its last index.
C4_BatchContiguous ==
    /\ failed_assert # "contiguity"
    /\ InBatch =>
          /\ ap_item.entries[1].idx = applied_idx + 1
          /\ \A i \in 1..Len(ap_item.entries) :
                ap_item.entries[i].idx = applied_idx + i
    /\ ap_pc = "take_snapshot" => Last(ap_item.entries).idx = applied_idx

\* a batch is taken from the queue after a remote snapshot was loaded
C4_Witness ==
    /\ ap_pc = "apply" /\ applied_idx >= 2
    /\ fsm.log[applied_idx].kind = "snp"
\* C5: when read_barrier() has returned without an exception _applied_idx
\* is at or past the read index the leader's execute_read_barrier returned.
C5_ReadIndexApplied ==
    \A c \in Callers :
        rb[c].pc = "done" => rb[c].read_idx >= 1 /\ applied_idx >= rb[c].read_idx

\* a barrier that had to wait for its read index to be applied has returned
C5_Witness ==
    \E c \in Callers :
        /\ rb[c].pc = "done" /\ rb[c].res = "ok"
        /\ rb[c].read_idx >= 2

ConfMaxIdx == 5     \* length of the log under set_configuration
InitConf == InitWith(Limits(ConfMaxIdx, MaxTerm, MaxWaiters, 0, 1, FALSE))
ConfSets == {InitConfig, {"A", "B"}}
\* a follower gets the entry that leaves the joint configuration
FsmLeaveJoint ==
    /\ is_joint(get_configuration(fsm))
    /\ FsmAppend(Len(fsm.log) + 1, LeaveJoint(fsm, fsm.term))
NextConf ==
    \/ Start(0)
    \/ \E c_new \in ConfSets : set_configuration(c_new)
    \/ ScConfCommitted \/ ScDummyCommitted
    \/ add_entry("committed")
    \/ Applier \/ Io
    \/ FsmBecomeLeader
    \/ FsmBecomeFollower("B")
    \/ FsmLeaveJoint
    \/ FsmAppend(Len(fsm.log), Entry(fsm.term, "cmd"))
    \/ \E n \in 1..ConfMaxIdx : FsmCommit(n)
    \/ apply_snapshot("B", 2, 2)
SpecConf == InitConf /\ [][NextConf]_vars

\* the promises that are pending: one per commit waiter, apply waiter, read,
\* awaited index and inbound snapshot, and the leader promise
PendingPromises ==
    Cardinality(DOMAIN awaited_commits) + Cardinality(DOMAIN awaited_applies)
    + (IF leader_promise = "pending" THEN 1 ELSE 0)
    + Len(reads) + Cardinality(awaited_indexes)
    + Cardinality(snapshot_application_done)
AbortResolved == {"stopped", "aborted"}

\* C7: the step of abort() that follows the join is taken with io_fiber and
\* applier_fiber exited, and it resolves every pending promise once: commit and
\* apply waiters with stopped_error, the leader promise with stopped_error, the
\* reads with not_a_leader and an empty hint, the awaited indexes with
\* stopped_error, the inbound-snapshot promises with the aborted error, and
\* nothing else; when abort() has returned awaited_commits, awaited_applies,
\* reads and awaited_indexes are empty; and no promise is failed with these
\* errors while a fiber still runs.
C7_AbortResolvesPending ==
    /\ [][(abort_pc = "join" /\ abort_pc' = "drain") =>
            /\ io_pc = "exited" /\ ap_pc = "exited"
            /\ \A k \in DOMAIN awaited_commits :
                  Out("commit", k, awaited_commits[k], "stopped", NoServer, NoServer)
                      \in delivered'
            /\ \A k \in DOMAIN awaited_applies :
                  Out("apply", k, awaited_applies[k], "stopped", NoServer, NoServer)
                      \in delivered'
            /\ leader_promise = "pending" =>
                  Out("leader", 0, 0, "stopped", NoServer, NoServer) \in delivered'
            /\ \A i \in 1..Len(reads) :
                  Out("read", reads[i].idx, reads[i].id, "not_a_leader",
                      reads[i].from, NoServer) \in delivered'
            /\ \A w \in awaited_indexes :
                  Out("index", w.idx, 0, "stopped", w.c, NoServer) \in delivered'
            /\ \A d \in snapshot_application_done :
                  Out("snapshot", 0, 0, "aborted", d, NoServer) \in delivered'
            /\ Cardinality(delivered') = PendingPromises]_vars
    /\ [](abort_pc = "done" =>
            /\ awaited_commits = EmptyMap /\ awaited_applies = EmptyMap
            /\ reads = <<>> /\ awaited_indexes = {})
    /\ []((\E o \in delivered : o.res \in AbortResolved) =>
            io_pc = "exited" /\ ap_pc = "exited")


\* C8: once abort() was called io_fiber and applier_fiber both exit, wherever
\* they were suspended, and abort() returns when the aborted snapshot transfers
\* and the append-request chains have ended, unless a failed assert ends the
\* program first; after abort() has returned both fibers stay exited.
C8_FibersExit ==
    /\ (abort_pc = "join" ~>
           ((io_pc = "exited" /\ ap_pc = "exited") \/ failed_assert # "none"))
    /\ (abort_pc = "join" ~> (abort_pc = "done" \/ failed_assert # "none"))
    /\ [](abort_pc \in {"drain", "done"} => io_pc = "exited" /\ ap_pc = "exited")
    /\ [][abort_pc = "done" => abort_pc' = "done"]_vars

\* abort() was called while io_fiber was in a persistence call and
\* applier_fiber in a call to the state machine, with a snapshot transfer and
\* an append-request chain under way
C8_Witness ==
    /\ abort_pc = "join"
    /\ io_pc \in IoPersist
    /\ ap_pc \notin {"pop", "exited"}
    /\ DOMAIN snapshot_transfers # {}
    /\ DOMAIN append_request_status # {}


\* C9: a call of set_configuration with the set the current configuration
\* already has returns at once in every state where the API is served, on the
\* leader and off it: the FSM gets no entry, no waiter is registered, nothing
\* else of the server changes, and the call can be made again with the same
\* outcome.
C9_EmptyDiffNoEffect ==
    [][\A c_new \in ConfSets :
          (set_configuration(c_new) /\ c_new = get_configuration(fsm).current) =>
             /\ sc'.pc = "returned"
             /\ fsm' = fsm
             /\ awaited_commits' = awaited_commits
             /\ awaited_applies' = awaited_applies
             /\ UNCHANGED <<applied_idx, queueVars, ioVars, apVars, readVars,
                            stepdown_promise, netVars, ctlVars, failed_assert>>
             /\ delivered' = {}
             /\ (c_new = get_configuration(fsm).current)'
             /\ (Serving /\ sc.pc \in ScReturned)']_vars

\* set_configuration was called with the set a completed change of the
\* configuration had installed, and returned at once
C9_Witness ==
    /\ sc.pc = "returned" /\ sc.arg = {"A", "B"}
    /\ get_configuration(fsm) = [current |-> {"A", "B"}, previous |-> {}]

DeposeMaxIdx == 5   \* length of the log
InitDepose == InitWith(Limits(DeposeMaxIdx, MaxTerm, MaxWaiters, 0, 1, FALSE))
NextDepose ==
    \/ Start(0)
    \/ \E type \in {"committed", "applied"} : add_entry(type)
    \/ set_configuration({"B", "C"})
    \/ ScConfCommitted \/ ScDummyCommitted
    \/ Applier \/ Io
    \/ FsmBecomeLeader
    \/ FsmBecomeFollower("B")
    \/ \E n \in 1..DeposeMaxIdx : FsmCommit(n)
    \/ apply_snapshot("B", 2, 2)
SpecDepose == InitDepose /\ [][NextDepose]_vars

\* io_fiber ends an iteration and finds the FSM not a leader
ObservesLoss == io_pc = "finish" /\ io_pc' = "poll" /\ ~is_leader(fsm)
UnknownOutcomes ==
    {Outcome("commit", awaited_commits, k, "commit_status_unknown") :
        k \in DOMAIN awaited_commits}
    \cup {Outcome("apply", awaited_applies, k, "commit_status_unknown") :
             k \in DOMAIN awaited_applies}

\* C11: when io_fiber finds that the server is no longer the leader, the
\* pending waiters fail with commit_status_unknown only if the server is not in
\* current_rpc_config (then all of them fail and both maps are emptied); a
\* deposed leader that is still a member keeps its waiters pending and fails
\* none of them in that step.
C11_DeposedMemberKeepsWaiters ==
    [][ObservesLoss =>
          IF Self \in current_rpc_config
          THEN /\ awaited_commits' = awaited_commits
               /\ awaited_applies' = awaited_applies
               /\ \A o \in delivered' : o.res # "commit_status_unknown"
          ELSE /\ awaited_commits' = EmptyMap /\ awaited_applies' = EmptyMap
               /\ UnknownOutcomes \subseteq delivered']_vars

\* the deposed leader of the three-node cluster has processed all the output
\* of the FSM and a waiter of an uncommitted entry is still pending
C11_Witness ==
    /\ ~is_leader(fsm) /\ current_leader(fsm) = "B"
    /\ io_pc = "poll" /\ ~has_output(fsm)
    /\ current_rpc_config = Servers
    /\ \E k \in DOMAIN awaited_commits : k > fsm.commit_idx

\* C11 as stated: in the three-node cluster, the step in which the deposed
\* leader's io_fiber finds the loss of leadership fails every pending waiter
\* with commit_status_unknown.
C11_LeaderLossDropsWaiter ==
    [][(ObservesLoss /\ current_rpc_config = Servers) =>
          /\ UnknownOutcomes \subseteq delivered'
          /\ awaited_commits' = EmptyMap /\ awaited_applies' = EmptyMap]_vars


\* the step in which the applier has loaded the snapshot ap_item
SnapshotProcessed == ap_pc = "load_snapshot" /\ ap_pc' = "pop"

\* C12: when the applier has loaded a snapshot from the queue, every commit
\* waiter and every apply waiter at or below the snapshot's index has failed
\* with commit_status_unknown and is gone, every waiter above it is pending as
\* before, _applied_idx is the snapshot's index; and a batch taken from the
\* queue, also after a snapshot, starts at _applied_idx + 1 and passes the
\* assert on contiguity.
C12_SnapshotDropsCovered ==
    /\ [][SnapshotProcessed =>
            /\ \A k \in DOMAIN awaited_commits :
                  IF k <= ap_item.idx
                  THEN /\ k \notin DOMAIN awaited_commits'
                       /\ Out("commit", k, awaited_commits[k], "commit_status_unknown",
                              NoServer, NoServer) \in delivered'
                  ELSE /\ k \in DOMAIN awaited_commits'
                       /\ awaited_commits'[k] = awaited_commits[k]
            /\ \A k \in DOMAIN awaited_applies :
                  IF k <= ap_item.idx
                  THEN /\ k \notin DOMAIN awaited_applies'
                       /\ Out("apply", k, awaited_applies[k], "commit_status_unknown",
                              NoServer, NoServer) \in delivered'
                  ELSE /\ k \in DOMAIN awaited_applies'
                       /\ awaited_applies'[k] = awaited_applies[k]
            /\ DOMAIN awaited_commits' \subseteq DOMAIN awaited_commits
            /\ DOMAIN awaited_applies' \subseteq DOMAIN awaited_applies
            /\ \A o \in delivered' :
                  o.kind \in {"commit", "apply"} =>
                     o.res = "commit_status_unknown" /\ o.idx <= ap_item.idx
            /\ applied_idx' = ap_item.idx]_vars
    /\ [][(ap_pc = "pop" /\ ap_pc' \in {"apply", "applied"}) =>
            ap_item'.entries[1].idx = applied_idx + 1]_vars
    /\ [](failed_assert # "contiguity")

\* a snapshot was loaded: a waiter it covers has failed, a waiter above it is
\* still pending
C12_Witness ==
    /\ ap_pc = "pop" /\ applied_idx = fsm.snap_idx /\ applied_idx >= 2
    /\ \E o \in delivered : o.res = "commit_status_unknown" /\ o.idx <= applied_idx
    /\ \E k \in DOMAIN awaited_commits \cup DOMAIN awaited_applies : k > applied_idx


\* ---- the constructor, on every pair of values of the two settings
ConfigMax == 10     \* largest snapshot_threshold and max_log_size tried
\* if (_config.snapshot_threshold > _config.max_log_size) throw config_error
ConfigRejected(config) == config.snapshot_threshold > config.max_log_size
\* server_impl::server_impl: throws config_error or returns
server_impl ==
    /\ ~started /\ delivered = {} /\ failed_assert = "none"
    /\ delivered' = {Out("construct", 0, 0,
                         IF ConfigRejected(lim.config) THEN "config_error" ELSE "ok",
                         NoServer, NoServer)}
    /\ UNCHANGED <<fsm, applied_idx, waiterVars, queueVars, ioVars, apVars,
                   readVars, stepdown_promise, sc, netVars, ctlVars, acked_idx,
                   failed_assert>>
InitCtor ==
    \E st \in 0..ConfigMax, ml \in 0..ConfigMax :
        InitWith([Limits(0, 0, 0, 0, 0, FALSE) EXCEPT
                     !.config = [snapshot_threshold |-> st, max_log_size |-> ml]])
SpecCtor == InitCtor /\ [][server_impl]_vars

\* C13 as stated: the constructor returns without config_error exactly when
\* snapshot_threshold is strictly smaller than max_log_size; with the two
\* equal it throws.
C13_RejectsUnlessSmaller ==
    \A o \in delivered :
        o.kind = "construct" =>
           (o.res = "ok" <=>
               lim.config.snapshot_threshold < lim.config.max_log_size)


\* ---- stepdown(): calls while one is pending, loss of leadership, timeout
InitStepdown == InitWith(Limits(MaxIdx, MaxTerm, 0, 0, 1, TRUE))
NextStepdown ==
    \/ Start(0)
    \/ stepdown
    \/ Applier \/ Io
    \/ FsmBecomeLeader
    \/ FsmBecomeFollower("B")
    \/ FsmTransferTimeout
    \/ \E n \in 1..MaxIdx : FsmCommit(n)
    \/ apply_snapshot("B", 2, 2)
SpecStepdown == InitStepdown /\ [][NextStepdown]_vars


StepdownOutcomes == {o.res : o \in {d \in delivered : d.kind = "stepdown"}}
StepdownCallOutcomes == {o.res : o \in {d \in delivered : d.kind = "stepdown_call"}}

\* C14: a pending stepdown() is resolved by the end of an io_fiber iteration
\* and by nothing else: with success when the FSM is no longer the leader,
\* with a timeout when it still is and the batch carries
\* abort_leadership_transfer, with success when both hold, and not at all when
\* neither holds; a stepdown() called while one is pending fails at once with
\* a logic error and leaves the pending promise in place.
C14_StepdownResolution ==
    /\ [][stepdown_promise /\ IoFinish =>
            LET lost == ~is_leader(fsm)
                abort_transfer == io_batch.abort_leadership_transfer
            IN /\ lost => ~stepdown_promise' /\ StepdownOutcomes' = {"ok"}
               /\ ~lost /\ abort_transfer =>
                      ~stepdown_promise' /\ StepdownOutcomes' = {"timeout"}
               /\ ~lost /\ ~abort_transfer =>
                      stepdown_promise' /\ StepdownOutcomes' = {}]_vars
    /\ [][stepdown_promise /\ ~IoFinish =>
            stepdown_promise' /\ StepdownOutcomes' = {}]_vars
    /\ [][~stepdown_promise => StepdownOutcomes' = {}]_vars
    /\ [][stepdown_promise /\ stepdown =>
            /\ StepdownCallOutcomes' = {"logic_error"}
            /\ stepdown_promise' /\ fsm' = fsm]_vars

\* the end of an iteration finds a pending stepdown, a batch that carries
\* abort_leadership_transfer and an FSM that is no longer the leader
C14_Witness ==
    /\ stepdown_promise /\ io_pc = "finish" /\ Running
    /\ io_batch.abort_leadership_transfer /\ ~is_leader(fsm)


\* the batch io_fiber holds carries a configuration it has not processed yet
ConfigurationInBatch ==
    io_batch.configuration # <<>> /\ io_pc \in {"store_tv", "store_snp", "push_snp",
                                                "truncate", "store_log", "dispatch"}

\* C15: start() leaves current_rpc_config equal to current \cup previous of
\* the configuration of the loaded log; the step of io_fiber that processes a
\* batch with a configuration leaves it equal to current \cup previous of
\* that configuration, which is the one the FSM had when the batch was
\* polled; nothing else changes it, so outside of a batch that carries a
\* configuration it is the configuration the FSM reported last; and the
\* servers registered with the RPC layer are always those of
\* current_rpc_config.
C15_RpcConfigFollowsConfiguration ==
    /\ [](rpc_servers = current_rpc_config)
    /\ [][Start(0) => current_rpc_config' = ConfAddresses(fsm')]_vars
    /\ [][IoPoll /\ io_batch'.configuration # <<>> =>
            io_batch'.configuration = <<ConfAddresses(fsm)>>]_vars
    /\ [][IoDispatch /\ io_batch.configuration # <<>> /\ failed_assert' = "none" =>
            current_rpc_config' = io_batch.configuration[1]]_vars
    /\ [][~Start(0) /\ ~(IoDispatch /\ io_batch.configuration # <<>>) =>
            current_rpc_config' = current_rpc_config]_vars
    /\ [](started /\ ~ConfigurationInBatch => current_rpc_config = fsm.conf_out)

\* io_fiber has processed a batch whose configuration lacks a server that the
\* rpc configuration had: the server was removed and is no longer registered
C15_Witness ==
    /\ io_pc \in {"push_committed", "finish"}
    /\ io_batch.configuration = <<{"A", "B"}>>
    /\ current_rpc_config = {"A", "B"} /\ rpc_servers = {"A", "B"}


\* ---- snapshot sends across elections: a node becomes leader only through a
\* candidacy whose vote requests io_fiber has sent
SendMaxTerm == 4
SendMaxIdx == 3
SendMaxMsgs == 2
InitSend == InitWith(Limits(SendMaxIdx, SendMaxTerm, 0, 0, SendMaxMsgs, TRUE))
NextSend ==
    \/ Start(0)
    \/ Applier \/ Io
    \/ FsmBecomeCandidate
    \/ FsmWinElection
    \/ FsmBecomeFollower("B")
    \/ FsmSend("B", "install_snapshot")
    \/ \E n \in 1..SendMaxIdx : FsmCommit(n)
    \/ \E id \in 0..SendMaxMsgs : TransferEnded(id)
    \/ apply_snapshot("B", 2, 2)
SpecSend == InitSend /\ [][NextSend]_vars

\* C16: when io_fiber dispatches an install_snapshot to a destination, the map
\* of live transfers has no entry for it: the assert on the emplace in
\* send_snapshot never fails.
C16_OneSendPerDestination == failed_assert # "transfer_emplace"


\* ---- snapshots received from two servers, with leadership changes
InstallMaxIdx == 3
InitInstall == InitWith(Limits(InstallMaxIdx, MaxTerm, 0, 0, 1, TRUE))
NextInstall ==
    \/ Start(0)
    \/ Applier \/ Io
    \/ FsmBecomeLeader
    \/ \E l \in {"B", "C"} : FsmBecomeFollower(l)
    \/ \E n \in 1..InstallMaxIdx : FsmCommit(n)
    \/ \E from \in {"B", "C"}, sidx \in 1..InstallMaxIdx, sterm \in 1..MaxTerm :
          apply_snapshot(from, sidx, sterm)
SpecInstall == InitInstall /\ [][NextInstall]_vars


\* the messages io_fiber has yet to dispatch
Undispatched ==
    (IF io_pc \in {"store_tv", "store_snp", "push_snp", "truncate", "store_log",
                   "dispatch"}
     THEN io_batch.messages ELSE <<>>) \o fsm.msgs
ReplyCount(msgs) == Cardinality({j \in DOMAIN msgs : msgs[j].type = "snapshot_reply"})

SnapshotResults(from) == {o.res : o \in {d \in delivered : d.kind = "snapshot" /\ d.to = from}}
SnapshotDrops == {o.to : o \in {d \in delivered : d.kind = "drop_snapshot"}}

\* C18: the promise apply_snapshot(from, snp) awaits is fulfilled with a
\* successful reply only in the step in which io_fiber dispatches the
\* snapshot_reply for `from`, and only when the applier has loaded the
\* snapshot; the snapshot is dropped from the state machine exactly when the
\* reply is not a success or the promise failed.
C18_ReplyAfterLoad ==
    /\ [][\A from \in Servers :
            "success" \in SnapshotResults(from)' =>
                /\ IoDispatch /\ from \in SnapshotReplies(io_batch.messages)
                /\ io_batch.snp # <<>> /\ applied_idx' >= io_batch.snp[1].idx]_vars
    /\ [][\A from \in Servers :
            from \in SnapshotDrops' <=>
                (SnapshotResults(from)' # {} /\ "success" \notin SnapshotResults(from)')]_vars


\* ---- read barriers of other servers across elections
ElectMaxTerm == 3
ElectMaxIdx == 3
InitElect == InitWith(Limits(ElectMaxIdx, ElectMaxTerm, 0, MaxReads, 0, FALSE))
NextElect ==
    \/ Start(0)
    \/ Applier \/ Io
    \/ FsmBecomeCandidate
    \/ FsmWinElection
    \/ FsmBecomeFollower("B")
    \/ \E n \in 1..ElectMaxIdx : FsmCommit(n)
    \/ \E id \in 1..MaxReads : FsmReadQuorum(id)
    \/ execute_read_barrier("B")
    \/ apply_snapshot("B", 2, 2)
SpecElect == InitElect /\ [][NextElect]_vars

\* C19: when the end of an io_fiber iteration finds the FSM not leading,
\* every read its batch's quorum does not cover is resolved with not_a_leader
\* and the leader the FSM knows, and _reads is emptied; and a read that is
\* resolved with its index was started in the leadership whose quorum the
\* batch reports.
C19_ReadsOfOneLeadership ==
    /\ [][IoFinish /\ ~is_leader(fsm) =>
            /\ reads' = <<>>
            /\ \A i \in 1..Len(reads) :
                  \/ Out("read", reads[i].idx, reads[i].id, "not_a_leader",
                         reads[i].from, current_leader(fsm)) \in delivered'
                  \/ /\ reads[i].id <= io_batch.max_read_id_with_quorum
                     /\ \A j \in 1..i : reads[j].id <= io_batch.max_read_id_with_quorum]_vars
    /\ [][IoFinish =>
            \A i \in 1..Len(reads) :
               Out("read", reads[i].idx, reads[i].id, "index", reads[i].from, NoServer)
                   \in delivered' => reads[i].term >= io_batch.read_term]_vars


\* C20: in an io_fiber iteration whose batch has term_and_vote, the call of
\* store_term_and_vote is the first the iteration makes and the first
\* persistence call to complete, before the snapshot descriptor and the log
\* entries; and when the messages of the batch are dispatched it has
\* completed.
C20_TermAndVoteFirst ==
    /\ [][IoPoll /\ io_batch'.term_and_vote => io_pc' = "store_tv"]_vars
    /\ [](io_batch.term_and_vote /\ io_batch.stored # <<>> =>
            io_batch.stored[1] = "store_tv")
    /\ [][IoDispatch /\ io_batch.term_and_vote /\ io_batch.messages # <<>> =>
            io_batch.stored # <<>> /\ io_batch.stored[1] = "store_tv"]_vars
    /\ [][IoPushSnp /\ io_batch.term_and_vote =>
            io_batch.stored # <<>> /\ io_batch.stored[1] = "store_tv"]_vars

\* io_fiber has dispatched the messages of a batch that carried term_and_vote,
\* a snapshot and log entries, all three persisted
C20_Witness ==
    /\ io_pc \in {"push_committed", "finish"}
    /\ io_batch.term_and_vote /\ io_batch.messages # <<>>
    /\ io_batch.snp # <<>> /\ io_batch.log_entries # <<>>
    /\ Len(io_batch.stored) >= 3


BatchIndexes(b) == {b.log_entries[i].idx : i \in DOMAIN b.log_entries}
Position(s, x) == IF \E i \in DOMAIN s : s[i] = x
                  THEN CHOOSE i \in DOMAIN s : s[i] = x ELSE 0

\* C21: in an iteration whose batch has log entries, truncate_log is called
\* (with the first entry's index, before the entries are stored) exactly when
\* that index is at most last_stable; when store_log_entries returns,
\* last_stable is the last entry's index and the persisted log holds, from
\* the first entry's index on, the entries of the batch and nothing else;
\* the messages are dispatched and the committed entries queued only after
\* that; and the persisted log never holds an entry above last_stable.
C21_LogPersistedFirst ==
    /\ [][IoStoredLog =>
            /\ (Position(io_batch.stored, "truncate") # 0)
                   <=> (io_batch.log_entries[1].idx <= last_stable)
            /\ last_stable' = Last(io_batch.log_entries).idx
            /\ {i \in persisted' : i >= io_batch.log_entries[1].idx}
                   = BatchIndexes(io_batch)
            /\ Position(io_batch.stored', "truncate")
                   < Position(io_batch.stored', "store_log")]_vars
    /\ [][(IoDispatch \/ IoPushCommitted) /\ io_batch.log_entries # <<>> =>
            /\ Position(io_batch.stored, "store_log") # 0
            /\ last_stable = Last(io_batch.log_entries).idx]_vars
    /\ [](\A i \in persisted : i <= last_stable)

\* store_log_entries has returned in an iteration that truncated the
\* persisted log and kept the entries below the first entry of the batch
C21_Witness ==
    /\ io_pc \in {"dispatch", "push_committed", "finish"}
    /\ Position(io_batch.stored, "truncate") # 0
    /\ Position(io_batch.stored, "store_log") # 0
    /\ last_stable = Last(io_batch.log_entries).idx
    /\ \E i \in persisted : i < io_batch.log_entries[1].idx


\* ---- a server removed and added again, with messages and snapshots for it
RpcMaxIdx == 5
RpcMaxMsgs == 2
RpcMaxTerm == 2
InitRpc == InitWith(Limits(RpcMaxIdx, RpcMaxTerm, 1, 0, RpcMaxMsgs, FALSE))
NextRpc ==
    \/ Start(0)
    \/ \E c_new \in ConfSets : set_configuration(c_new)
    \/ ScConfCommitted \/ ScDummyCommitted
    \/ Applier \/ Io
    \/ FsmBecomeLeader
    \/ FsmBecomeFollower("B")
    \/ \E n \in 1..RpcMaxIdx : FsmCommit(n)
    \/ \E type \in {"append_request", "install_snapshot"} : FsmSend("C", type)
    \/ \E id \in 0..RpcMaxMsgs : TransferEnded(id)
    \/ AppendSent("C")
    \/ apply_snapshot("B", 2, 2)
SpecRpc == InitRpc /\ [][NextRpc]_vars


InstallTo(d) ==
    \E i \in DOMAIN io_batch.messages :
        io_batch.messages[i].dst = d /\ io_batch.messages[i].type = "install_snapshot"

\* C22: when io_fiber processes a batch with a configuration, the servers
\* that join are in current_rpc_config and known to the RPC layer while the
\* messages of the batch are sent, the servers that leave are still known
\* then and are in neither afterwards, and no live snapshot transfer to a
\* leaving server is left: the one there was, and the one an install_snapshot
\* of the same batch started, is among the aborted transfers; the transfers
\* to the other servers stay.
C22_JoinBeforeLeaveAfter ==
    [][IoDispatch /\ failed_assert' = "none" /\ io_batch.configuration # <<>> =>
          LET conf == io_batch.configuration[1]
              joining == conf \ current_rpc_config
              leaving == current_rpc_config \ conf
          IN /\ joining \subseteq io_batch'.rpc_at_send
             /\ leaving \subseteq io_batch'.rpc_at_send
             /\ joining \subseteq rpc_servers' /\ joining \subseteq current_rpc_config'
             /\ leaving \cap rpc_servers' = {} /\ leaving \cap current_rpc_config' = {}
             /\ \A d \in leaving :
                   /\ d \notin DOMAIN snapshot_transfers'
                   /\ d \in DOMAIN snapshot_transfers =>
                          Transfer(snapshot_transfers[d], d)
                              \in aborted_snapshot_transfers'
                   /\ InstallTo(d) =>
                          \E t \in aborted_snapshot_transfers' :
                              /\ t.dst = d
                              /\ t.id >= next_snapshot_transfer_id
                              /\ t.id < next_snapshot_transfer_id'
             /\ \A d \in DOMAIN snapshot_transfers \ leaving :
                   /\ d \in DOMAIN snapshot_transfers'
                   /\ snapshot_transfers'[d] = snapshot_transfers[d]]_vars

\* io_fiber has processed a batch with a configuration a server left and an
\* install_snapshot for that server: the transfer was started and aborted
C22_Witness ==
    /\ io_pc \in {"push_committed", "finish"}
    /\ io_batch.configuration = <<{"A", "B"}>> /\ InstallTo("C")
    /\ "C" \in io_batch.rpc_at_send /\ "C" \notin rpc_servers
    /\ "C" \notin DOMAIN snapshot_transfers
    /\ aborted_snapshot_transfers # {}


\* C23: in an iteration whose batch has a snapshot the descriptor is stored;
\* a remote snapshot is then pushed onto _apply_entries, before the committed
\* entries of the batch are, and a local one is never pushed; the queue
\* grows at its back and shrinks at its front only; and applier_fiber takes
\* the front item only when it is done with the one before, which for a
\* snapshot means that it was loaded and _applied_idx is its index.
C23_SnapshotBeforeCommitted ==
    /\ [][(IoPushCommitted \/ IoFinish) /\ io_batch.snp # <<>> =>
            /\ Position(io_batch.stored, "store_snp") # 0
            /\ (Position(io_batch.stored, "push_snp") # 0) <=> ~io_batch.snp[1].is_local
            /\ ~io_batch.snp[1].is_local =>
                   Position(io_batch.stored, "store_snp")
                       < Position(io_batch.stored, "push_snp")]_vars
    /\ [][IoPushSnp => /\ ~io_batch.snp[1].is_local
                       /\ apply_entries' = Append(apply_entries,
                                                  SnapshotItem(io_batch.snp[1]))]_vars
    /\ [][IoPushCommitted =>
            apply_entries' = Append(apply_entries, BatchItem(io_batch.committed))]_vars
    /\ [][apply_entries' # apply_entries =>
            \/ IoPushSnp \/ IoPushCommitted
            \/ /\ ap_pc = "pop" /\ apply_entries' = Tail(apply_entries)
               /\ ap_pc' # "pop" => ap_item' = Head(apply_entries)]_vars
    /\ [][ap_pc = "load_snapshot" /\ ap_pc' # "load_snapshot" =>
            ap_pc' = "pop" /\ applied_idx' = ap_item.idx]_vars

\* the committed entries of a batch are queued behind the remote snapshot of
\* the same batch, which the applier has not taken yet
C23_Witness ==
    /\ io_pc = "finish" /\ io_batch.snp # <<>> /\ ~io_batch.snp[1].is_local
    /\ io_batch.committed # <<>>
    /\ \E i \in 1..(Len(apply_entries) - 1) :
          /\ apply_entries[i] = SnapshotItem(io_batch.snp[1])
          /\ apply_entries[i + 1] = BatchItem(io_batch.committed)


\* ---- read barriers of other servers across elections, three at a time
QuorumMaxReads == 3
InitQuorum == InitWith(Limits(ElectMaxIdx, ElectMaxTerm, 0, QuorumMaxReads, 0, FALSE))
NextQuorum ==
    \/ Start(0)
    \/ Applier \/ Io
    \/ FsmBecomeCandidate
    \/ FsmWinElection
    \/ FsmBecomeFollower("B")
    \/ \E n \in 1..ElectMaxIdx : FsmCommit(n)
    \/ \E id \in 1..QuorumMaxReads : FsmReadQuorum(id)
    \/ \E from \in {"B", "C"} : execute_read_barrier(from)
    \/ apply_snapshot("B", 2, 2)
SpecQuorum == InitQuorum /\ [][NextQuorum]_vars

\* the reads of rs that a step resolved with their index
ResolvedReads(rs, outs) ==
    {i \in 1..Len(rs) :
        Out("read", rs[i].idx, rs[i].id, "index", rs[i].from, NoServer) \in outs}

\* C24: at the end of an iteration whose batch reports
\* max_read_id_with_quorum = m, the reads resolved with an index are exactly
\* the reads at the front of _reads with id <= m, each with the index recorded
\* for it; the other reads stay, in their order (while the FSM leads); and
\* afterwards no read in _reads has an id <= m.
C24_QuorumResolvesPrefix ==
    /\ [][IoFinish =>
            LET m == io_batch.max_read_id_with_quorum
                n == Cardinality(ResolvedReads(reads, delivered'))
            IN /\ ResolvedReads(reads, delivered') = 1..n
               /\ \A i \in 1..n : reads[i].id <= m
               /\ n < Len(reads) => reads[n + 1].id > m
               /\ {o \in delivered' : o.kind = "read" /\ o.res = "index"}
                      = {Out("read", reads[i].idx, reads[i].id, "index",
                             reads[i].from, NoServer) : i \in 1..n}
               /\ is_leader(fsm) => reads' = SubSeq(reads, n + 1, Len(reads))]_vars
    /\ [][IoFinish /\ io_batch.max_read_id_with_quorum # 0 =>
            \A i \in 1..Len(reads') :
                reads'[i].id > io_batch.max_read_id_with_quorum]_vars


\* the promise in _awaited_indexes the caller waits for before it asks again
RetryWaits(c) == {w \in awaited_indexes : w.c = c}

\* C25: a caller of read_barrier() whose leader answers "not ready" waits for
\* _applied_idx to pass the value it recorded before the request, unless it
\* has passed it already, in which case it asks again at once; it asks again
\* only with _applied_idx above the recorded value; a not_a_leader reply makes
\* the leader it names the one asked next; and with no leader known the
\* caller waits for a leader.
C25_RetryAfterApply ==
    /\ [][\A c \in Callers : \A h \in Servers \cup {NoServer} : \A i \in 0..MaxIdx :
            RbRpcReply(c, "not_ready", h, i) =>
                IF applied_idx > rb[c].applied
                THEN rb'[c].pc = "loop" /\ rb'[c].leader = rb[c].leader
                     /\ rb'[c].read_idx = 0 /\ RetryWaits(c)' = {}
                ELSE rb'[c].pc = "wait_retry" /\ rb'[c].res = "none"
                     /\ RetryWaits(c)' = {[idx |-> rb[c].applied + 1, c |-> c]}]_vars
    /\ [][\A c \in Callers :
            rb[c].pc = "wait_retry" /\ rb'[c].pc = "loop" =>
                applied_idx > rb[c].applied /\ rb'[c].leader = rb[c].leader]_vars
    /\ [](\A c \in Callers :
            rb[c].pc = "wait_retry" /\ rb[c].res = "none" => RetryWaits(c) # {})
    /\ [][\A c \in Callers : \A h \in Servers \cup {NoServer} : \A i \in 0..MaxIdx :
            RbRpcReply(c, "not_a_leader", h, i) =>
                rb'[c].pc = "loop" /\ rb'[c].leader = h /\ rb'[c].read_idx = 0]_vars
    /\ [][\A c \in Callers :
            RbLoop(c) /\ rb[c].read_idx = 0 =>
                /\ rb[c].leader = NoServer =>
                      /\ rb'[c].pc \in {"wait_leader", "failed"}
                      /\ rb'[c].pc = "wait_leader" => leader_promise' = "pending"
                /\ rb[c].leader \notin {NoServer, Self} =>
                      /\ rb'[c].pc = "rpc" /\ rb'[c].leader = rb[c].leader
                      /\ rb'[c].applied = applied_idx]_vars
    /\ [][\A c \in Callers :
            rb[c].pc = "wait_leader" /\ rb'[c].pc = "loop" =>
                rb'[c].leader = current_leader(fsm) /\ rb[c].res = "ok"]_vars

\* the caller asks again after it waited for an entry to be applied past the
\* recorded value
C25_Witness ==
    /\ rb["r1"].pc = "wait_retry" /\ rb["r1"].res # "none"
    /\ applied_idx > rb["r1"].applied /\ rb["r1"].applied > 0


TransferOutcomes == {o \in delivered : o.kind = "transfer"}

\* C26: when the send of a snapshot ends, a transfer that is among the
\* aborted ones is removed from them, nothing is stepped into the FSM and
\* the live transfers stay as they are, a newer one to the same destination
\* too; else the live transfer of the destination, which is this one, is
\* erased and one snapshot_reply is stepped into the FSM. The ids of the
\* transfers under way differ.
C26_TransferCompletion ==
    /\ [][\A id \in 0..(next_snapshot_transfer_id - 1) :
            TransferEnded(id) =>
                IF \E a \in aborted_snapshot_transfers : a.id = id
                THEN /\ \A a \in aborted_snapshot_transfers :
                            a \in aborted_snapshot_transfers' <=> a.id # id
                     /\ aborted_snapshot_transfers' \subseteq aborted_snapshot_transfers
                     /\ snapshot_transfers' = snapshot_transfers
                     /\ fsm' = fsm
                     /\ \A o \in TransferOutcomes' : o.res = "ignored"
                ELSE \E d \in DOMAIN snapshot_transfers :
                        /\ snapshot_transfers[d] = id
                        /\ snapshot_transfers' =
                               Restrict(snapshot_transfers, DOMAIN snapshot_transfers \ {d})
                        /\ aborted_snapshot_transfers' = aborted_snapshot_transfers
                        /\ fsm' = fsm_snapshot_reply(fsm, d)
                        /\ TransferOutcomes' =
                               {Out("transfer", id, 0, "stepped", d, NoServer)}]_vars
    /\ [][TransferOutcomes' # {} =>
            \E id \in 0..(next_snapshot_transfer_id - 1) : TransferEnded(id)]_vars
    /\ [](\A t1 \in InFlight : \A t2 \in InFlight :
            (t1.id = t2.id => t1 = t2) /\ t1.id < next_snapshot_transfer_id)

\* the send of an aborted transfer ended while a newer transfer to its
\* destination is under way: the newer one is still there
C26_Witness ==
    \E o \in TransferOutcomes :
        /\ o.res = "ignored"
        /\ o.to \in DOMAIN snapshot_transfers
        /\ snapshot_transfers[o.to] > o.idx


\* ---- append requests to two followers, with an rpc module whose
\* send_append_entries may return a ready future
ChainMaxMsgs == 3
ChainMaxIdx == 3
ChainMaxTerm == 3
InitChain ==
    InitWith([Limits(ChainMaxIdx, ChainMaxTerm, 0, 0, ChainMaxMsgs, FALSE)
                 EXCEPT !.sync_rpc = TRUE])
NextChain ==
    \/ Start(0)
    \/ Applier \/ Io
    \/ FsmBecomeLeader
    \/ FsmBecomeFollower("B")
    \/ \E n \in 1..ChainMaxIdx : FsmCommit(n)
    \/ \E d \in {"B", "C"} : FsmSend(d, "append_request")
    \/ \E d \in {"B", "C"} : AppendSent(d)
    \/ apply_snapshot("B", 2, 2)
SpecChain == InitChain /\ [][NextChain]_vars

\* the append requests to d whose send_append_entries was called and has not
\* returned
Outstanding(d) ==
    IF d \in DOMAIN append_request_status /\ append_request_status[d].chain # <<>>
    THEN {Head(append_request_status[d].chain)} ELSE {}
Chain(d) == StatusOf(append_request_status, d).chain
AppendsTo(msgs, d) ==
    SelectSeq(msgs, LAMBDA m : m.type = "append_request" /\ m.dst = d)

\* C27: for every destination at most one send_append_entries is under way;
\* the requests are sent in the order the FSM emitted them: a request is
\* chained behind the ones emitted before it, and the next one is sent when
\* the one before it returned, also when it failed; and the record of a
\* destination exists exactly while its count, which is the number of its
\* requests queued or under way, is above zero.
C27_OneAppendAtATime ==
    /\ [](\A d \in Servers :
            /\ Cardinality(Outstanding(d)) <= 1
            /\ \A i \in 1..(Len(Chain(d)) - 1) : Chain(d)[i] < Chain(d)[i + 1])
    /\ [][\A d \in Servers :
            Chain(d)' # Chain(d) =>
                \/ /\ IoDispatch
                   /\ LET sent == AppendsTo(io_batch.messages, d)
                          seqs == [k \in 1..Len(sent) |-> sent[k].seq]
                      IN \E n \in 1..Len(seqs) :
                            /\ Chain(d)' = Chain(d) \o SubSeq(seqs, n, Len(seqs))
                            /\ Chain(d) # <<>> => n = 1
                \/ /\ AppendSent(d)
                   /\ Chain(d)' = Tail(Chain(d))
                   /\ \E o \in delivered' :
                         o.kind = "append_sent" /\ o.idx = Head(Chain(d)) /\ o.to = d]_vars
    /\ [](\A d \in Servers :
            d \in DOMAIN append_request_status <=>
                StatusOf(append_request_status, d).count > 0)
    /\ [](\A d \in Servers :
            StatusOf(append_request_status, d).count = Len(Chain(d)))


\* ---- an rpc module that throws from the sends made within send_message
ThrowMaxIdx == 4
ThrowMaxTerm == 3
ThrowMaxMsgs == 1
InitThrow ==
    InitWith([Limits(ThrowMaxIdx, ThrowMaxTerm, 1, 1, ThrowMaxMsgs, FALSE)
                 EXCEPT !.send_throws = TRUE])
NextThrow ==
    \/ Start(0)
    \/ set_configuration({"A", "B"})
    \/ ScConfCommitted \/ ScDummyCommitted
    \/ Applier \/ Io
    \/ FsmBecomeCandidate
    \/ FsmWinElection
    \/ FsmBecomeFollower("B")
    \/ \E n \in 1..ThrowMaxIdx : FsmCommit(n)
    \/ FsmSend("C", "append_request")
    \/ AppendSent("C")
    \/ execute_read_barrier("B")
    \/ FsmReadQuorum(1)
    \/ apply_snapshot("B", 2, 2)
SpecThrow == InitThrow /\ [][NextThrow]_vars

SendFailed(b) == \E i \in DOMAIN b.dispatched : b.dispatched[i] = "failed"

\* C28: when the send of a message of a batch throws, the loop goes on: the
\* send of every message of the batch is attempted, in order, and the ones
\* that do not throw have their effect; no promise is failed for it; the
\* servers that leave are removed in the same run; the committed entries of
\* the batch are pushed, and the end of the iteration (reads, leadership,
\* leader promise) is run, after which the fiber polls again.
C28_SendFailureNotFatal ==
    /\ [][IoDispatch /\ failed_assert' = "none" =>
            /\ Len(io_batch'.dispatched) = Len(io_batch.messages)
            /\ \A i \in DOMAIN io_batch.messages :
                  LET m == io_batch.messages[i] IN
                  /\ io_batch'.dispatched[i] = "failed" => Direct(m)
                  /\ m.type = "snapshot_reply" =>
                        /\ m.dst \notin snapshot_application_done'
                        /\ \E o \in delivered' : o.kind = "snapshot" /\ o.to = m.dst
                  /\ m.type = "append_request" => m.seq \in
                        {Chain(m.dst)'[k] : k \in 1..Len(Chain(m.dst)')}
            /\ \A o \in delivered' : o.kind \in {"snapshot", "drop_snapshot"}
            /\ io_batch.configuration # <<>> =>
                  current_rpc_config' = io_batch.configuration[1]
            /\ io_pc' = IF io_batch.committed # <<>> THEN "push_committed" ELSE "finish"]_vars
    /\ [][SendFailed(io_batch) /\ io_pc' # io_pc =>
            \/ io_pc = "push_committed" /\ IoPushCommitted /\ io_pc' = "finish"
            \/ io_pc = "finish" /\ IoFinish /\ io_pc' = "poll"]_vars
    /\ [](SendFailed(io_batch) => io_pc \in {"push_committed", "finish"})

\* the first message of a batch could not be sent, the second was, the
\* committed entries of the batch were pushed and the iteration is at its end
C28_Witness ==
    /\ io_pc = "finish" /\ Len(io_batch.messages) >= 2
    /\ io_batch.dispatched[1] = "failed"
    /\ io_batch.dispatched[Len(io_batch.messages)] = "sent"
    /\ io_batch.committed # <<>>
    /\ apply_entries # <<>> /\ Last(apply_entries) = BatchItem(io_batch.committed)


TakenDropped == {o \in delivered : o.kind = "drop_snapshot" /\ o.res = "rejected"}

\* C29: when a batch has been applied, applier_fiber takes a snapshot exactly
\* when _applied_idx is at least snapshot_threshold above the index of the
\* last snapshot the FSM holds at that moment, and only then; the snapshot
\* it hands to the FSM has the index _applied_idx and the term of the last
\* entry of the batch; when the FSM, holding a snapshot at or after that
\* index by then, refuses it, the snapshot taken is dropped from the state
\* machine and nothing of the FSM changes; _applied_idx stays in both cases.
C29_SnapshotPolicy ==
    /\ [][ApplierApplied /\ failed_assert' = "none" =>
            /\ applied_idx' = Last(ap_item.entries).idx
            /\ (ap_pc' = "take_snapshot") <=>
                  /\ applied_idx' >= log_last_snapshot_idx(fsm)
                  /\ applied_idx' - log_last_snapshot_idx(fsm) >= snapshot_threshold]_vars
    /\ [][ap_pc # "take_snapshot" /\ ap_pc' = "take_snapshot" =>
            ApplierApplied /\ ap_item.entries # <<>> /\ ap_item' = ap_item]_vars
    /\ [][ApplierSnapshotTaken =>
            /\ applied_idx' = applied_idx
            /\ IF log_last_snapshot_idx(fsm) < applied_idx
               THEN /\ fsm'.snap_idx = applied_idx
                    /\ fsm'.snap_term = Last(ap_item.entries).term
                    /\ fsm'.snp_out = <<[idx |-> applied_idx,
                                         term |-> Last(ap_item.entries).term,
                                         is_local |-> TRUE]>>
                    /\ TakenDropped' = {}
               ELSE /\ fsm' = fsm
                    /\ TakenDropped' =
                           {Out("drop_snapshot", applied_idx, Last(ap_item.entries).term,
                                "rejected", NoServer, NoServer)}]_vars
    /\ [][TakenDropped' # {} => ApplierSnapshotTaken]_vars

\* the FSM got a later snapshot from another server while take_snapshot was
\* under way, and the snapshot taken was dropped
C29_Witness ==
    /\ TakenDropped # {}
    /\ log_last_snapshot_idx(fsm) > applied_idx
    /\ applied_idx >= snapshot_threshold


\* ---- a persistence module whose calls may fail, then abort()
FailMaxIdx == 3
FailMaxTerm == 2
InitFail == InitWith(Limits(FailMaxIdx, FailMaxTerm, MaxWaiters, 0, 1, FALSE))
NextFail ==
    \/ Start(0)
    \/ \E type \in {"committed", "applied"} : add_entry(type)
    \/ IoStep \/ ApplierStep
    \/ IoPersistFailed
    \/ FsmBecomeLeader
    \/ FsmBecomeFollower("B")
    \/ \E t \in 1..FailMaxTerm : FsmAppend(1, Entry(t, "cmd"))
    \/ \E n \in 1..FailMaxIdx : FsmCommit(n)
    \/ FsmSend("B", "append_request")
    \/ AppendSent("B")
    \/ apply_snapshot("B", 2, 2)
    \/ abort \/ AbortJoined \/ AbortDone
SpecFail == InitFail /\ [][NextFail]_vars

\* io_fiber has returned because a persistence call failed
PersistFailed ==
    io_pc = "exited" /\ \E i \in DOMAIN io_batch.stored : io_batch.stored[i] = "failed"
WaiterResults == {o \in delivered : o.kind \in {"commit", "apply"}}

\* after a persistence failure io_fiber does nothing more: the batch is not
\* dispatched, nothing is pushed onto _apply_entries, nothing is persisted,
\* no batch is polled
IoStoppedByFailure ==
    /\ [][IoPersistFailed => io_pc' = "exited"]_vars
    /\ [](PersistFailed => io_batch.dispatched = <<>> /\ io_batch.rpc_at_send = {})
    /\ [][PersistFailed =>
            /\ io_pc' = "exited" /\ io_batch' = io_batch
            /\ last_stable' = last_stable /\ persisted' = persisted
            /\ fsm'.msgs = fsm.msgs \/ Len(fsm'.msgs) > Len(fsm.msgs)
            /\ append_request_status' = append_request_status
                   \/ \E d \in Servers : AppendSent(d)
            /\ current_rpc_config' = current_rpc_config
            /\ Len(apply_entries') <= Len(apply_entries)]_vars

\* applier_fiber runs on after the failure and returns only under abort()
ApplierRunsOn ==
    [][PersistFailed /\ ap_pc # "exited" /\ ap_pc' = "exited" =>
          ApplierStopped /\ abort_pc # "none"]_vars

\* C30: a persistence failure ends io_fiber: the batch is not dispatched, its
\* committed entries are not queued, no batch is polled any more; the applier
\* runs on until abort(); the waiters are resolved only by the applier, for
\* the batches and snapshots that were queued before the failure, and by
\* abort(), which fails the ones left with stopped_error.
C30_PersistenceFailureFatal ==
    /\ IoStoppedByFailure
    /\ ApplierRunsOn
    /\ [][PersistFailed /\ WaiterResults' # {} =>
            \/ AbortJoined /\ \A o \in WaiterResults' : o.res = "stopped"
            \/ /\ ApplierPop \/ ApplierApplied \/ ApplierSnapshotLoaded
               /\ \A o \in WaiterResults' : o.res # "stopped"]_vars
    /\ [][PersistFailed /\ apply_entries = <<>> /\ ap_pc = "pop"
             /\ WaiterResults' # {} =>
            AbortJoined /\ \A o \in WaiterResults' : o.res = "stopped"]_vars
    /\ [][PersistFailed /\ AbortJoined =>
            WaiterResults' = StoppedWaiters("commit", awaited_commits)
                                 \cup StoppedWaiters("apply", awaited_applies)]_vars

\* C30 as stated: after a persistence failure every waiter stays pending
\* until abort() fails it with stopped_error.
C30_WaitersPendingUntilAbort ==
    /\ IoStoppedByFailure
    /\ ApplierRunsOn
    /\ [][PersistFailed /\ WaiterResults' # {} =>
            AbortJoined /\ \A o \in WaiterResults' : o.res = "stopped"]_vars

\* after the failure of a persistence call with a batch to store, the
\* applier has applied a batch queued before, and abort() fails a waiter
C30_Witness ==
    /\ PersistFailed /\ io_batch.log_entries # <<>>
    /\ abort_pc = "drain" /\ applied_idx > 0
    /\ \E o \in WaiterResults : o.res = "stopped" /\ o.idx > applied_idx

\* ---- a state machine whose apply() may fail, read barriers, then abort()
ApplyFailMaxIdx == 3
ApplyFailMaxTerm == 2
InitApplyFail ==
    InitWith(Limits(ApplyFailMaxIdx, ApplyFailMaxTerm, MaxWaiters, 1, 1, FALSE))
NextApplyFail ==
    \/ Start(0)
    \/ \E type \in {"committed", "applied"} : add_entry(type)
    \/ IoStep \/ ApplierStep
    \/ ApplierApplyFailed
    \/ FsmBecomeLeader
    \/ FsmBecomeFollower("B")
    \/ \E n \in 1..ApplyFailMaxIdx : FsmCommit(n)
    \/ FsmReadQuorum(1)
    \/ read_barrier("r1") \/ RbLoop("r1") \/ RbResume("r1")
    \/ apply_snapshot("B", 2, 2)
    \/ abort \/ AbortJoined \/ AbortDone
SpecApplyFail == InitApplyFail /\ [][NextApplyFail]_vars

\* applier_fiber has returned because state_machine.apply failed for the
\* batch in ap_item
ApplyFailed == ap_pc = "exited" /\ ap_item.entries # <<>>
FailedBatch == {ap_item.entries[i].idx : i \in DOMAIN ap_item.entries}

\* C31: when state_machine.apply fails for a batch the applier stops:
\* _applied_idx stays below the batch, no apply waiter of the batch is
\* fulfilled, no index wait is signalled for it, no later item of the queue
\* is applied; the commit waiters of the batch were resolved before apply
\* was called.
C31_ApplyFailureStopsApplier ==
    /\ [][ApplierApplyFailed => ap_pc' = "exited" /\ ApplyFailed']_vars
    /\ [](ApplyFailed => applied_idx = Last(ap_item.entries).idx - Len(ap_item.entries))
    /\ [](ApplyFailed =>
            \A o \in delivered :
                /\ o.kind = "apply" => o.res # "ok"
                /\ o.kind = "index" => o.res # "ok"
                /\ o.kind = "commit" => o.res = "stopped")
    /\ [][ApplyFailed =>
            /\ UNCHANGED <<ap_pc, ap_item, applied_idx>>
            /\ Len(apply_entries') < Len(apply_entries) => abort
            /\ \A k \in DOMAIN awaited_applies \cap FailedBatch :
                  k \in DOMAIN awaited_applies'
                     \/ Outcome("apply", awaited_applies, k, "stopped") \in delivered'
                     \/ Outcome("apply", awaited_applies, k, "commit_status_unknown")
                            \in delivered'
            /\ \A w \in awaited_indexes :
                  w \in awaited_indexes'
                     \/ Out("index", w.idx, 0, "stopped", w.c, NoServer) \in delivered']_vars
    /\ [][ApplierPop /\ ap_pc' = "apply" =>
            /\ DOMAIN awaited_commits' \cap {e.idx : e \in {ap_item'.entries[i] : i \in DOMAIN ap_item'.entries}} = {}
            /\ \A k \in DOMAIN awaited_commits :
                  k <= Last(ap_item'.entries).idx =>
                     \E o \in delivered' : o.kind = "commit" /\ o.idx = k
                                               /\ o.res \in {"ok", "dropped_entry"}]_vars
    /\ [](ap_pc = "apply" \/ ApplyFailed =>
            \A k \in DOMAIN awaited_commits : k > Last(ap_item.entries).idx)

\* apply() failed for a batch with an apply waiter and an index wait that are
\* still pending, and with a later item in the queue
C31_Witness ==
    /\ ApplyFailed /\ abort_pc = "none"
    /\ DOMAIN awaited_applies \cap FailedBatch # {}
    /\ \E w \in awaited_indexes : w.idx \in FailedBatch
    /\ apply_entries # <<>>

\* ---- a leader that is deposed with waiters pending, gets its log cut and
\* overwritten by the next leader, and is elected again (as a candidate whose
\* vote requests io_fiber has sent)
OverwriteMaxIdx == 4
OverwriteMaxTerm == 3
OverwriteMaxWaiters == 4
OverwriteMaxLog == 4    \* max_log_size of this run
InitOverwrite ==
    InitWith([Limits(OverwriteMaxIdx, OverwriteMaxTerm, OverwriteMaxWaiters, 0, 0, FALSE)
                 EXCEPT !.config.max_log_size = OverwriteMaxLog])
NextOverwrite ==
    \/ Start(0)
    \/ \E type \in {"committed", "applied"} : add_entry(type)
    \/ Applier \/ Io
    \/ FsmBecomeCandidate
    \/ FsmWinElection
    \/ FsmBecomeFollower("B")
    \/ \E t \in 1..OverwriteMaxTerm : FsmAppend(1, Entry(t, "cmd"))
    \/ \E n \in 1..OverwriteMaxIdx : FsmCommit(n)
    \/ apply_snapshot("B", 2, 2)
SpecOverwrite == InitOverwrite /\ [][NextOverwrite]_vars

\* the waiters of the map w whose term is below t
Stale(w, t) == {k \in DOMAIN w : w[k] < t}
\* a map after notify_waiters for the batch: nothing at or below the last
\* index, nothing of a term below the last term, and what left the map above
\* the last index was failed with dropped_entry
Notified(kind, w, after, batch) ==
    /\ \A k \in DOMAIN after : k > Last(batch).idx
    /\ Stale(after, Last(batch).term) = {}
    /\ \A k \in DOMAIN w \ DOMAIN after :
          k > Last(batch).idx => Outcome(kind, w, k, "dropped_entry") \in delivered'

\* C32: after notify_waiters for a committed batch, on either map, no waiter
\* at or below the batch's last index is left and no waiter of a term below
\* the batch's last term is left at any index: those were failed with
\* dropped_entry.
C32_NoStaleWaiterLeft ==
    /\ [][ApplierPop /\ ap_pc' \in {"apply", "applied"} =>
            Notified("commit", awaited_commits, awaited_commits', ap_item'.entries)]_vars
    /\ [][ApplierApplied =>
            Notified("apply", awaited_applies, awaited_applies', ap_item.entries)]_vars

\* the index waits that left _awaited_indexes in a step
IndexWaitsEnded == awaited_indexes \ awaited_indexes'

\* C33: when the applier is done with a batch or a snapshot no index wait at
\* or below _applied_idx is pending; wait_for_apply(idx) registers a wait
\* only for idx above _applied_idx and returns at once otherwise; a wait is
\* fulfilled only when _applied_idx has reached its index, or failed with
\* stopped_error by abort().
C33_IndexWaitsFollowApplied ==
    /\ [](ap_pc = "pop" => \A w \in awaited_indexes : w.idx > applied_idx)
    /\ [][\A w \in awaited_indexes' \ awaited_indexes : w.idx > applied_idx]_vars
    /\ [][\A c \in Callers :
            /\ rb[c].pc = "loop" /\ rb[c].read_idx # 0
            /\ rb[c].read_idx <= applied_idx /\ rb'[c] # rb[c]
            => rb'[c].pc = "done" /\ awaited_indexes' = awaited_indexes]_vars
    /\ [][\A w \in IndexWaitsEnded :
            \/ /\ Out("index", w.idx, 0, "ok", w.c, NoServer) \in delivered'
               /\ applied_idx' >= w.idx
               /\ rb'[w.c].res = "ok"
               /\ ApplierApplied \/ ApplierSnapshotTaken \/ ApplierSnapshotLoaded
            \/ /\ Out("index", w.idx, 0, "stopped", w.c, NoServer) \in delivered'
               /\ rb'[w.c].res = "stopped"
               /\ AbortJoined]_vars

\* the applier took a snapshot after a batch and then fulfilled the wait of
\* a barrier for the batch's last index
C33_Witness ==
    /\ ap_pc = "pop" /\ applied_idx >= 2
    /\ log_last_snapshot_idx(fsm) = applied_idx
    /\ \E c \in Callers :
          /\ rb[c].pc = "wait_apply" /\ rb[c].res = "ok"
          /\ Out("index", applied_idx, 0, "ok", c, NoServer) \in delivered

\* C34: the registration of a waiter is always unique: when
\* add_entry_internal registers the waiter of the entry the FSM appended, the
\* map of the requested kind has no waiter at that index and assert(inserted)
\* holds, also on a leader that was deposed with waiters pending, had the
\* end of its log overwritten and was elected again.
C34_RegistrationUnique == failed_assert # "inserted"

\* ---- stepdown() and then abort()
InitStepdownStop == InitWith(Limits(MaxIdx, MaxTerm, 0, 0, 1, TRUE))
NextStepdownStop ==
    \/ Start(0)
    \/ stepdown
    \/ IoStep \/ ApplierStep
    \/ FsmBecomeLeader
    \/ FsmBecomeFollower("B")
    \/ FsmTransferTimeout
    \/ \E n \in 1..MaxIdx : FsmCommit(n)
    \/ apply_snapshot("B", 2, 2)
    \/ abort \/ AbortJoined \/ AbortDone
SpecStepdownStop == InitStepdownStop /\ [][NextStepdownStop]_vars

\* C35: a stepdown() that returned a pending future is resolved in the end;
\* when abort() is called while the stepdown is in progress the promise is
\* resolved by the time abort() has returned, none is left pending.
C35_StepdownResolvedByAbort == abort_pc = "done" => ~stepdown_promise

====
